---- MODULE Spec2Model ----
(***************************************************************************)
(* Model of the documentation generator's two core components:             *)
(*   - the model builder (src/src/parser.rs): one depth-first pass per     *)
(*     input file over the entity tree, writing the namespace tree         *)
(*     `root` and the symbol index `index`;                                *)
(*   - the cross-reference resolver (src/src/templates.rs,                 *)
(*     get_link_for_type, and src/src/render.rs, get_path_for_name).       *)
(*                                                                         *)
(* Strings are sequences of one-character strings, so that trimming,       *)
(* splitting, searching and replacing are computed as the code computes    *)
(* them.  Option<T> is a sequence of length 0 (None) or 1 (Some).          *)
(***************************************************************************)
EXTENDS Integers, Sequences, FiniteSets, TLC

VARIABLES
    root,     \* Output.root: the namespace tree                (parser.rs:115)
    index,    \* Output.index: qualified name -> kind           (parser.rs:116)
    stack,    \* the active parse_node(Namespace) frames, outermost first
    fileNo,   \* number of parse(file) calls started            (main.rs:77-89)
    trace,    \* history: the entities handed to parse_node, in visit order
    cur,      \* the latest get_link_for_type call and its result
    batch     \* main's loop over the input files: outcome of each file so far,
              \* warnings reported, and whether the process is still running

vars == <<root, index, stack, fileNo, trace, cur, batch>>

----------------------------------------------------------------------------
(* Bounds of the model *)

MaxEntities == 4
MaxDepth == 2
MaxFiles == 2
MaxRecords == 3
MaxNsDepth == 3
MaxExprLen == 4
MaxBatch == 3
MaxBuild == 3
NumWorkers == 2

----------------------------------------------------------------------------
(* Strings *)

None == <<>>
Some(v) == <<v>>
IsSome(o) == Len(o) > 0
Unwrap(o) == o[1]

Sep == <<":", ":">>

StartsWith(s, p) == Len(p) <= Len(s) /\ SubSeq(s, 1, Len(p)) = p

EndsWith(s, p) == Len(p) <= Len(s) /\ SubSeq(s, Len(s) - Len(p) + 1, Len(s)) = p

Contains(s, p) == \E i \in 1..(Len(s) - Len(p) + 1) : SubSeq(s, i, i + Len(p) - 1) = p

Drop(s, k) == SubSeq(s, k + 1, Len(s))

\* str::replace: every non-overlapping match, left to right
RECURSIVE Replace(_, _, _)
Replace(s, from, to) ==
    IF s = <<>> THEN <<>>
    ELSE IF StartsWith(s, from) THEN to \o Replace(Drop(s, Len(from)), from, to)
    ELSE <<s[1]>> \o Replace(Tail(s), from, to)

\* str::trim_start_matches(&str): the prefix is removed as often as it matches
RECURSIVE TrimStartMatches(_, _)
TrimStartMatches(s, p) ==
    IF p # <<>> /\ StartsWith(s, p) THEN TrimStartMatches(Drop(s, Len(p)), p) ELSE s

\* str::trim_start_matches / trim_end_matches / trim_matches with a char predicate
RECURSIVE TrimStartChars(_, _)
TrimStartChars(s, cs) ==
    IF s # <<>> /\ s[1] \in cs THEN TrimStartChars(Tail(s), cs) ELSE s

RECURSIVE TrimEndChars(_, _)
TrimEndChars(s, cs) ==
    IF s # <<>> /\ s[Len(s)] \in cs THEN TrimEndChars(SubSeq(s, 1, Len(s) - 1), cs) ELSE s

TrimChars(s, cs) == TrimEndChars(TrimStartChars(s, cs), cs)

\* str::trim: the model's only whitespace character is the space
Trim(s) == TrimChars(s, {" "})

\* str::split(&str): the pieces between the non-overlapping matches
RECURSIVE SplitFrom(_, _, _)
SplitFrom(s, p, acc) ==
    IF s = <<>> THEN <<acc>>
    ELSE IF StartsWith(s, p) THEN <<acc>> \o SplitFrom(Drop(s, Len(p)), p, <<>>)
    ELSE SplitFrom(Tail(s), p, Append(acc, s[1]))

Split(s, p) == SplitFrom(s, p, <<>>)

\* [T]::join(&str)
RECURSIVE Join(_, _)
Join(parts, p) ==
    IF parts = <<>> THEN <<>>
    ELSE IF Len(parts) = 1 THEN parts[1]
    ELSE parts[1] \o p \o Join(Tail(parts), p)

\* format!("{}::{}", a, b)
Qualify(a, b) == a \o Sep \o b

----------------------------------------------------------------------------
(* Text constants of the code *)

KNamespace == <<"n", "a", "m", "e", "s", "p", "a", "c", "e">>
KRecord == <<"r", "e", "c", "o", "r", "d">>
KEnum == <<"e", "n", "u", "m">>
KFunction == <<"f", "u", "n", "c", "t", "i", "o", "n">>
KAlias == <<"a", "l", "i", "a", "s">>

TStruct == <<"s", "t", "r", "u", "c", "t">>
TClass == <<"c", "l", "a", "s", "s">>
TUnion == <<"u", "n", "i", "o", "n">>
TEnum == <<"e", "n", "u", "m">>
TInt == <<"i", "n", "t">>
TVoid == <<"v", "o", "i", "d">>
TTypename == <<"t", "y", "p", "e", "n", "a", "m", "e">>
TTemplate == <<"t", "e", "m", "p", "l", "a", "t", "e">>

DeductionGuide == <<"d", "e", "d", "u", "c", "t", "i", "o", "n", " ", "g", "u", "i", "d", "e">>
UnnamedStruct == <<"(", "u", "n", "n", "a", "m", "e", "d", " ", "s", "t", "r", "u", "c", "t">>
UnnamedUnion == <<"(", "u", "n", "n", "a", "m", "e", "d", " ", "u", "n", "i", "o", "n">>
UnnamedEnum == <<"(", "u", "n", "n", "a", "m", "e", "d", " ", "e", "n", "u", "m">>
AnonymousPrefix == <<"(", "a", "n", "o", "n", "y", "m", "o", "u", "s">>
UnnamedPrefix == <<"(", "u", "n", "n", "a", "m", "e", "d">>
Quote == <<"\"">>
QuoteEscape == <<"&", "q", "u", "o", "t">>

----------------------------------------------------------------------------
(* The entity tree handed over by the front end (clang::Entity).  Every    *)
(* entity carries the attributes the builder reads: get_kind, get_name,    *)
(* the display name of get_type / get_result_type, get_accessibility, the  *)
(* const/static/virtual predicates, get_comment and get_children.          *)

Entity(kind, name, type, access, quals, comment, children) ==
    [kind |-> kind, name |-> name, type |-> type, access |-> access,
     quals |-> quals, comment |-> comment, children |-> children]

RecordKinds == {"StructDecl", "ClassDecl", "UnionDecl", "ClassTemplate"}
FunctionKinds == {"FunctionDecl", "FunctionTemplate"}
TemplateParamKinds ==
    {"TemplateTypeParameter", "NonTypeTemplateParameter", "TemplateTemplateParameter"}

\* comment::parse_comment: the comment processor is an external collaborator;
\* its result is carried through as an opaque value
ParseComment(c) == <<"comment", c>>

OptComment(node) == IF IsSome(node.comment) THEN Some(ParseComment(Unwrap(node.comment))) ELSE None

\* Iterator::filter over get_children()
OfKinds(children, kinds) == SelectSeq(children, LAMBDA c : c.kind \in kinds)

\* Iterator::find(|c| c.get_kind() == kind)
FirstOfKind(children, kind) == OfKinds(children, {kind})[1]

ParseTemplate(node) ==
    LET ps == OfKinds(node.children, TemplateParamKinds)
    IN  [parameters |->
            [i \in 1..Len(ps) |->
                [name |-> ps[i].name,
                 type_ |-> CASE ps[i].kind = "TemplateTypeParameter" -> TTypename
                             [] ps[i].kind = "NonTypeTemplateParameter" -> ps[i].type
                             [] OTHER -> TTemplate]]]

ParseFunction(node) ==
    LET ps == OfKinds(node.children, {"ParmDecl"})
    IN  [name |-> Replace(node.name, Quote, QuoteEscape),
         return_type |-> node.type,
         parameters |->
            [i \in 1..Len(ps) |->
                [name |-> ps[i].name, type_ |-> ps[i].type, comment |-> None, struct_ |-> None]],
         comment |-> OptComment(node),
         props |-> [const_ |-> "const" \in node.quals,
                    static_ |-> "static" \in node.quals,
                    virtual_ |-> "virtual" \in node.quals],
         namespace |-> None,
         template |-> IF node.kind = "FunctionTemplate" THEN Some(ParseTemplate(node)) ELSE None,
         overloads |-> None]

ParseEnum(node) ==
    LET vs == OfKinds(node.children, {"EnumConstantDecl"})
    IN  [name |-> node.name,
         comment |-> OptComment(node),
         namespace |-> None,
         values |-> [i \in 1..Len(vs) |-> [name |-> vs[i].name, comment |-> OptComment(vs[i])]]]

NestedRecord(r) == [tag |-> "Record", val |-> r]
NestedEnum(e) == [tag |-> "Enum", val |-> e]

\* IsAnonymousName without the "(unnamed" test
IsAnonymousNameOnly(name) == StartsWith(name, AnonymousPrefix)

\* record.name.starts_with("(anonymous") || record.name.starts_with("(unnamed")
IsAnonymousName(name) == StartsWith(name, AnonymousPrefix) \/ StartsWith(name, UnnamedPrefix)

RecordKindText(kind) ==
    CASE kind = "StructDecl" -> TStruct
      [] kind = "ClassDecl" -> TClass
      [] kind = "ClassTemplate" -> TClass
      [] kind = "UnionDecl" -> TUnion

\* The nested-record arm of parse_record: the first named nested record of
\* an owner only creates the owner's nested list, later ones are pushed.
PushNestedRecord(ret, record) ==
    IF ~IsSome(ret.nested)
    THEN [ret EXCEPT !.nested = Some(<<>>)]
    ELSE [ret EXCEPT !.nested = Some(Append(Unwrap(ret.nested), NestedRecord(record)))]

\* The nested-enum arm of parse_record
PushNestedEnum(ret, enum) ==
    LET r1 == IF ~IsSome(ret.nested) THEN [ret EXCEPT !.nested = Some(<<>>)] ELSE ret
    IN  [r1 EXCEPT !.nested = Some(Append(Unwrap(r1.nested), NestedEnum(enum)))]

RECURSIVE ParseRecord(_)
RECURSIVE RecordChildren(_, _)

\* The FieldDecl arm of parse_record; the three tests read the field's
\* type text as the preceding ones left it
ParseField(c) ==
    LET f0 == [name |-> c.name, type_ |-> c.type, comment |-> OptComment(c), struct_ |-> None]
        f1 == IF Contains(f0.type_, UnnamedStruct)
              THEN [f0 EXCEPT !.type_ = TStruct,
                              !.struct_ = Some(NestedRecord(
                                  ParseRecord(FirstOfKind(c.children, "StructDecl"))))]
              ELSE f0
        f2 == IF Contains(f1.type_, UnnamedUnion)
              THEN [f1 EXCEPT !.type_ = TUnion,
                              !.struct_ = Some(NestedRecord(
                                  ParseRecord(FirstOfKind(c.children, "UnionDecl"))))]
              ELSE f1
        f3 == IF Contains(f2.type_, UnnamedEnum)
              THEN [f2 EXCEPT !.type_ = TEnum,
                              !.struct_ = Some(NestedEnum(
                                  ParseEnum(FirstOfKind(c.children, "EnumDecl"))))]
              ELSE f2
    IN  f3

\* RecordChild without the tests of get_accessibility()
RecordChildAnyAccess(ret, c) ==
    CASE c.kind = "FieldDecl" -> [ret EXCEPT !.fields = Append(@, ParseField(c))]
      [] c.kind = "Constructor" ->
            [ret EXCEPT !.ctor = Append(@, [ParseFunction(c) EXCEPT !.return_type = <<>>])]
      [] c.kind \in {"Method", "FunctionTemplate"} ->
            [ret EXCEPT !.methods = Append(@, [ParseFunction(c) EXCEPT !.namespace = Some(ret.name)])]
      [] c.kind \in RecordKinds ->
            LET record == ParseRecord(c)
            IN  IF ~IsAnonymousName(record.name)
                THEN PushNestedRecord(ret, [record EXCEPT !.namespace = Some(ret.name)])
                ELSE ret
      [] c.kind = "EnumDecl" ->
            LET enum == ParseEnum(c)
            IN  IF ~IsAnonymousName(enum.name)
                THEN PushNestedEnum(ret, [enum EXCEPT !.namespace = Some(ret.name)])
                ELSE ret
      [] OTHER -> ret

\* One iteration of the loop over the record's children
RecordChild(ret, c) ==
    CASE c.kind = "FieldDecl" ->
            IF c.access = "public" THEN [ret EXCEPT !.fields = Append(@, ParseField(c))] ELSE ret
      [] c.kind = "Constructor" ->
            [ret EXCEPT !.ctor = Append(@, [ParseFunction(c) EXCEPT !.return_type = <<>>])]
      [] c.kind \in {"Method", "FunctionTemplate"} ->
            IF c.access = "public"
            THEN [ret EXCEPT !.methods = Append(@, [ParseFunction(c) EXCEPT !.namespace = Some(ret.name)])]
            ELSE ret
      [] c.kind \in RecordKinds ->
            LET record == ParseRecord(c)
            IN  IF ~IsAnonymousName(record.name)
                THEN PushNestedRecord(ret, [record EXCEPT !.namespace = Some(ret.name)])
                ELSE ret
      [] c.kind = "EnumDecl" ->
            LET enum == ParseEnum(c)
            IN  IF ~IsAnonymousName(enum.name)
                THEN PushNestedEnum(ret, [enum EXCEPT !.namespace = Some(ret.name)])
                ELSE ret
      [] OTHER -> ret

RecordChildren(ret, children) ==
    IF children = <<>> THEN ret
    ELSE RecordChildren(RecordChild(ret, children[1]), Tail(children))

ParseRecord(node) ==
    RecordChildren(
        [name |-> node.name,
         fields |-> <<>>,
         comment |-> OptComment(node),
         kind |-> RecordKindText(node.kind),
         namespace |-> None,
         ctor |-> <<>>,
         methods |-> <<>>,
         template |-> IF node.kind = "ClassTemplate" THEN Some(ParseTemplate(node)) ELSE None,
         nested |-> None],
        node.children)

\* The front end answers None for a name or a type it does not have: the
\* entity carries the empty text, and an unwrap() of it panics.
Missing(text) == text = <<>>

\* parse_template panics: c.get_type().unwrap() of a non-type parameter
ParseTemplatePanics(node) ==
    \E i \in 1..Len(node.children) :
        node.children[i].kind = "NonTypeTemplateParameter" /\ Missing(node.children[i].type)

\* ParseFunctionPanics without the unwrap of the parameter types
ParseFunctionPanicsUnchecked(node) ==
    \/ Missing(node.name)
    \/ Missing(node.type)
    \/ node.kind = "FunctionTemplate" /\ ParseTemplatePanics(node)

\* parse_function panics: the unwraps of the name, of the result type and of
\* the type of a parameter
ParseFunctionPanics(node) ==
    \/ Missing(node.name)
    \/ Missing(node.type)
    \/ \E i \in 1..Len(node.children) :
           node.children[i].kind = "ParmDecl" /\ Missing(node.children[i].type)
    \/ node.kind = "FunctionTemplate" /\ ParseTemplatePanics(node)

\* parse_enum panics: the unwrap of the name
ParseEnumPanics(node) == Missing(node.name)

\* parse_record panics: the unwrap of its name, or a child it reads panics;
\* a field or method that is not public is not read
RECURSIVE ParseRecordPanics(_)
ParseRecordPanics(node) ==
    LET Inline(c, text, kind) ==
            /\ Contains(c.type, text)
            /\ \/ OfKinds(c.children, {kind}) = <<>>
               \/ IF kind = "EnumDecl" THEN ParseEnumPanics(FirstOfKind(c.children, kind))
                  ELSE ParseRecordPanics(FirstOfKind(c.children, kind))
        FieldPanics(c) ==
            \/ Missing(c.type)
            \/ Inline(c, UnnamedStruct, "StructDecl")
            \/ ~Contains(c.type, UnnamedStruct) /\ Inline(c, UnnamedUnion, "UnionDecl")
            \/ /\ ~Contains(c.type, UnnamedStruct)
               /\ ~Contains(c.type, UnnamedUnion)
               /\ Inline(c, UnnamedEnum, "EnumDecl")
        ChildPanics(c) ==
            CASE c.kind = "FieldDecl" -> c.access = "public" /\ FieldPanics(c)
              [] c.kind = "Constructor" -> ParseFunctionPanics(c)
              [] c.kind \in {"Method", "FunctionTemplate"} ->
                    c.access = "public" /\ ParseFunctionPanics(c)
              [] c.kind \in RecordKinds -> ParseRecordPanics(c)
              [] c.kind = "EnumDecl" -> ParseEnumPanics(c)
              [] OTHER -> FALSE
    IN  \/ Missing(node.name)
        \/ node.kind = "ClassTemplate" /\ ParseTemplatePanics(node)
        \/ \E i \in 1..Len(node.children) : ChildPanics(node.children[i])

\* Parser::get_name_for_namespace
GetNameForNamespace(name, namespace_name, ns_name_full) ==
    IF ns_name_full # <<>> THEN Qualify(ns_name_full, name)
    ELSE IF namespace_name # <<>> THEN Qualify(namespace_name, name)
    ELSE name

\* HashMap::insert: a later value for a key replaces the earlier one
Insert(idx, key, kind) ==
    [k \in (DOMAIN idx) \cup {key} |-> IF k = key THEN kind ELSE idx[k]]

----------------------------------------------------------------------------
(* parse_node: the arms that do not recurse.  Each takes the entity, the   *)
(* namespace node `ns` it is added to, the index and                       *)
(* current_namespace_name, and yields the namespace node and the index as  *)
(* the arm leaves them.                                                    *)

\* Vec::iter_mut().find(|x| x.name == name): the first position, 0 if none
FindByName(items, name) ==
    IF \E i \in 1..Len(items) : items[i].name = name
    THEN CHOOSE i \in 1..Len(items) :
            /\ items[i].name = name
            /\ \A j \in 1..(i - 1) : items[j].name # name
    ELSE 0

\* PushOverload inserting at the front of the overload list
PushOverloadFront(existing, function) ==
    LET ov == IF IsSome(existing.overloads) THEN Unwrap(existing.overloads) ELSE <<>>
    IN  [existing EXCEPT !.overloads = Some(<<function>> \o ov)]

\* existing.overloads: created on the first sibling, then pushed to
PushOverload(existing, function) ==
    LET ov == IF IsSome(existing.overloads) THEN Unwrap(existing.overloads) ELSE <<>>
    IN  [existing EXCEPT !.overloads = Some(Append(ov, function))]

\* ParseNodeFunction without the deduction-guide test
ParseNodeFunctionKeepGuide(node, ns, idx, cns) ==
    LET absolute_name == GetNameForNamespace(node.name, ns.name, cns)
        function == [ParseFunction(node) EXCEPT !.namespace = Some(cns)]
        i == FindByName(ns.functions, function.name)
    IN  IF i # 0
        THEN [ns |-> [ns EXCEPT !.functions[i] = PushOverload(@, function)], index |-> idx]
        ELSE [ns |-> [ns EXCEPT !.functions = Append(@, function)],
              index |-> Insert(idx, absolute_name, KFunction)]

\* ParseNodeFunction without the same-name test: every function is a new entry
ParseNodeFunctionNoCollapse(node, ns, idx, cns) ==
    LET absolute_name == GetNameForNamespace(node.name, ns.name, cns)
        function == [ParseFunction(node) EXCEPT !.namespace = Some(cns)]
    IN  IF Contains(function.name, DeductionGuide)
        THEN [ns |-> ns, index |-> idx]
        ELSE [ns |-> [ns EXCEPT !.functions = Append(@, function)],
              index |-> Insert(idx, absolute_name, KFunction)]

ParseNodeFunction(node, ns, idx, cns) ==
    LET absolute_name == GetNameForNamespace(node.name, ns.name, cns)
        function == [ParseFunction(node) EXCEPT !.namespace = Some(cns)]
        i == FindByName(ns.functions, function.name)
    IN  IF i # 0
        THEN [ns |-> [ns EXCEPT !.functions[i] = PushOverload(@, function)], index |-> idx]
        ELSE IF Contains(function.name, DeductionGuide)
        THEN [ns |-> ns, index |-> idx]
        ELSE [ns |-> [ns EXCEPT !.functions = Append(@, function)],
              index |-> Insert(idx, absolute_name, KFunction)]

\* The loop over record.nested in parse_node: every element gets the
\* owner's qualified name as its namespace and a key in the index
RECURSIVE RegisterNested(_, _, _, _, _)
RegisterNested(nest, i, owner, idx, cns) ==
    IF i > Len(nest) THEN [nested |-> nest, index |-> idx]
    ELSE LET qualified == IF cns = <<>> THEN owner ELSE Qualify(cns, owner)
             key == GetNameForNamespace(nest[i].val.name, owner, qualified)
             kind == IF nest[i].tag = "Record" THEN KRecord ELSE KEnum
         IN  RegisterNested([nest EXCEPT ![i].val.namespace = Some(qualified)],
                            i + 1, owner, Insert(idx, key, kind), cns)

\* MergeRecord that merges the field list as well
MergeRecordWithFields(existing, record) ==
    [existing EXCEPT !.methods = @ \o record.methods, !.fields = @ \o record.fields]

\* existing.methods.append(&mut record.methods)
MergeRecord(existing, record) ==
    [existing EXCEPT !.methods = @ \o record.methods]

ParseNodeRecord(node, ns, idx, cns) ==
    LET absolute_name == GetNameForNamespace(node.name, ns.name, cns)
        record == [ParseRecord(node) EXCEPT !.namespace = Some(cns)]
        i == FindByName(ns.records, record.name)
    IN  IF i # 0
        THEN [ns |-> [ns EXCEPT !.records[i] = MergeRecord(@, record)], index |-> idx]
        ELSE LET reg == IF IsSome(record.nested)
                        THEN RegisterNested(Unwrap(record.nested), 1, record.name, idx, cns)
                        ELSE [nested |-> <<>>, index |-> idx]
                 rec2 == IF IsSome(record.nested)
                         THEN [record EXCEPT !.nested = Some(reg.nested)]
                         ELSE record
             IN  [ns |-> [ns EXCEPT !.records = Append(@, rec2)],
                  index |-> Insert(reg.index, absolute_name, KRecord)]

\* The EnumDecl arm of parse_node
ParseNodeEnum(node, ns, idx, cns) ==
    LET absolute_name == GetNameForNamespace(node.name, ns.name, cns)
        enum_ == [ParseEnum(node) EXCEPT !.namespace = Some(cns)]
    IN  [ns |-> [ns EXCEPT !.enums = Append(@, enum_)],
         index |-> Insert(idx, absolute_name, KEnum)]

StructPrefix == <<"s", "t", "r", "u", "c", "t", " ">>
Unknown == <<"u", "n", "k", "n", "o", "w", "n">>

\* The loop of the TypeAliasDecl arm over the children from the i-th on
\* (i counts from 0 as enumerate() does); a TypeRef carries its display name
\* and, as its type, the display name of get_typedef_underlying_type()
RECURSIVE AliasScan(_, _, _, _)
AliasScan(children, i, type_, templated) ==
    IF i >= Len(children) THEN [type_ |-> type_, templated |-> templated]
    ELSE LET c == children[i + 1]
             t1 == CASE c.kind = "TypeRef" ->
                           type_ \o (IF ~Missing(c.type) THEN c.type
                                     ELSE TrimStartMatches(c.name, StructPrefix))
                     [] c.kind = "TemplateRef" -> c.name \o <<"<">>
                     [] OTHER -> type_
             tm == templated \/ c.kind = "TemplateRef"
             t2 == IF tm /\ i < Len(children) - 1 /\ i # 0 THEN t1 \o <<",">> ELSE t1
         IN  AliasScan(children, i + 1, t2, tm)

\* The type text the TypeAliasDecl arm records
AliasType(node) ==
    LET r == AliasScan(node.children, 0, <<>>, FALSE)
        closed == IF r.templated THEN r.type_ \o <<">">> ELSE r.type_
    IN  IF closed = <<>> THEN Unknown ELSE closed

\* The TypeAliasDecl arm of parse_node
ParseNodeAlias(node, ns, idx, cns) ==
    LET absolute_name == GetNameForNamespace(node.name, ns.name, cns)
        alias == [namespace |-> Some(cns),
                  name |-> node.name,
                  type_ |-> AliasType(node),
                  comment |-> OptComment(node)]
    IN  [ns |-> [ns EXCEPT !.aliases = Append(@, alias)],
         index |-> Insert(idx, absolute_name, KAlias)]

\* The TypeAliasDecl arm panics: the unwraps of a display name and of the name
ParseNodeAliasPanics(node) ==
    \/ Missing(node.name)
    \/ \E i \in 1..Len(node.children) :
           /\ Missing(node.children[i].name)
           /\ \/ node.children[i].kind = "TemplateRef"
              \/ node.children[i].kind = "TypeRef" /\ Missing(node.children[i].type)

\* parse_node panics on the entity before it changes the model or the index
ParseNodePanics(node) ==
    CASE node.kind \in FunctionKinds -> ParseFunctionPanics(node)
      [] node.kind \in RecordKinds -> ParseRecordPanics(node)
      [] node.kind = "EnumDecl" -> ParseEnumPanics(node)
      [] node.kind = "Namespace" -> Missing(node.name)
      [] node.kind = "TypeAliasDecl" -> ParseNodeAliasPanics(node)
      [] OTHER -> FALSE

\* Namespace { name, ..Default::default() } as parse_node builds real_ns
NewNamespace(node, cns) ==
    [name |-> node.name,
     comment |-> OptComment(node),
     records |-> <<>>,
     functions |-> <<>>,
     namespaces |-> <<>>,
     enums |-> <<>>,
     aliases |-> <<>>,
     namespace |-> Some(cns)]

\* Output::default().root
DefaultNamespace ==
    [name |-> <<>>,
     comment |-> None,
     records |-> <<>>,
     functions |-> <<>>,
     namespaces |-> <<>>,
     enums |-> <<>>,
     aliases |-> <<>>,
     namespace |-> None]

\* The current_namespace_name handed to the children of namespace `name`
ChildNamespaceName(cns, name) == IF cns # <<>> THEN Qualify(cns, name) ELSE name

----------------------------------------------------------------------------
(* The traversal.  A frame of `stack` is one active parse_node call on a   *)
(* Namespace entity: `exists` tells whether new_ns borrows the parent's    *)
(* child at position `pos` or the local real_ns; `cns` is the              *)
(* current_namespace_name its children are parsed under.                   *)

Frame(name, cns, exists, pos, real_ns) ==
    [name |-> name, cns |-> cns, exists |-> exists, pos |-> pos, real_ns |-> real_ns]

\* The namespace node `ns` of the parse_node calls made at depth k
RECURSIVE NodeAt(_, _, _)
NodeAt(rt, st, k) ==
    IF k = 0 THEN rt
    ELSE IF st[k].exists THEN NodeAt(rt, st, k - 1).namespaces[st[k].pos]
    ELSE st[k].real_ns

\* A write through the &mut reference of depth k
RECURSIVE WriteAt(_, _, _, _)
WriteAt(rt, st, k, node) ==
    IF k = 0 THEN [root |-> node, stack |-> st]
    ELSE IF st[k].exists
    THEN WriteAt(rt, st, k - 1,
                 [NodeAt(rt, st, k - 1) EXCEPT !.namespaces[st[k].pos] = node])
    ELSE [root |-> rt, stack |-> [st EXCEPT ![k].real_ns = node]]

Depth == Len(stack)
CurNs == NodeAt(root, stack, Depth)
CurName == IF Depth = 0 THEN <<>> ELSE stack[Depth].cns

\* One entry of the history: the entity and the current_namespace_name it
\* was parsed under; for a namespace, also the number of the file that opens it
Event(ev, node, ns) ==
    [ev |-> ev, node |-> node, ns |-> ns, file |-> IF ev = "enter" THEN fileNo ELSE 0]

\* Entities handed to parse_node so far
Visited == Len(trace)

----------------------------------------------------------------------------
(* Entities offered by the front end *)

NameN == <<"n">>
NameM == <<"m">>
NameS == <<"S">>
NameF == <<"f">>
NameGuide ==
    <<"<", "d", "e", "d", "u", "c", "t", "i", "o", "n", " ", "g", "u", "i", "d", "e",
      " ", "f", "o", "r", " ", "S", ">">>

Leaf(kind, name, type, access) == Entity(kind, name, type, access, {}, None, <<>>)

NamespaceN == Leaf("Namespace", NameN, <<>>, "none")
NamespaceM == Leaf("Namespace", NameM, <<>>, "none")

\* void f();   void f(int);   template <typename T> void f(T);
FunctionF0 == Entity("FunctionDecl", NameF, TVoid, "none", {}, None, <<>>)
FunctionF1 ==
    Entity("FunctionDecl", NameF, TVoid, "none", {}, None,
           <<Leaf("ParmDecl", <<>>, TInt, "none")>>)
FunctionFT ==
    Entity("FunctionTemplate", NameF, TVoid, "none", {}, None,
           <<Leaf("TemplateTypeParameter", <<"T">>, <<>>, "none"),
             Leaf("ParmDecl", <<"t">>, <<"T">>, "none")>>)
\* the deduction guide the compiler synthesizes for a class template S
FunctionGuide == Entity("FunctionTemplate", NameGuide, <<"S">>, "none", {}, None, <<>>)

FieldX == Leaf("FieldDecl", <<"x">>, TInt, "public")
FieldP == Leaf("FieldDecl", <<"p">>, TInt, "private")
MethodM == Leaf("Method", <<"m">>, TVoid, "public")
MethodK == Entity("Method", <<"k">>, TInt, "public", {"const"}, Some("k"), <<>>)
MethodQ == Leaf("Method", <<"q">>, TVoid, "private")
CtorS == Leaf("Constructor", NameS, TVoid, "public")

\* struct S { int x; };
StructSX == Entity("StructDecl", NameS, <<>>, "none", {}, None, <<FieldX>>)

NamespaceEntities == {NamespaceN, NamespaceM}
FunctionEntities == {FunctionF0, FunctionF1, FunctionFT, FunctionGuide}
RecordEntities == {StructSX}

\* void S();  a function that shares its name with struct S
FunctionS == Entity("FunctionDecl", NameS, TVoid, "none", {}, None, <<>>)
BatchEntities == {FunctionF0, FunctionS, StructSX}

----------------------------------------------------------------------------
(* Record entities offered to the builder when records are the subject.    *)
(* As the front end reports it, an unnamed struct, union or enum that is   *)
(* the type of a field is a child of the record and a child of the field.  *)

NameAnonStruct == 
    <<"(", "u", "n", "n", "a", "m", "e", "d", " ", "s", "t",
      "r", "u", "c", "t", " ", "a", "t", " ", "f", ":", "1", ")">>
NameAnonUnion == 
    <<"(", "u", "n", "n", "a", "m", "e", "d", " ", "u", "n",
      "i", "o", "n", " ", "a", "t", " ", "f", ":", "2", ")">>
NameAnonEnum == 
    <<"(", "u", "n", "n", "a", "m", "e", "d", " ", "e",
      "n", "u", "m", " ", "a", "t", " ", "f", ":", "3", ")">>
NameAnonMember == 
    <<"(", "a", "n", "o", "n", "y", "m", "o", "u", "s", " ", "s",
      "t", "r", "u", "c", "t", " ", "a", "t", " ", "f", ":", "4", ")">>
TypeAnonStruct == 
    <<"S", ":", ":", "(", "u", "n", "n", "a", "m", "e", "d", " ", "s",
      "t", "r", "u", "c", "t", " ", "a", "t", " ", "f", ":", "1", ")">>
TypeAnonUnion == 
    <<"S", ":", ":", "(", "u", "n", "n", "a", "m", "e", "d", " ",
      "u", "n", "i", "o", "n", " ", "a", "t", " ", "f", ":", "2", ")">>
TypeAnonEnum == 
    <<"S", ":", ":", "(", "u", "n", "n", "a", "m", "e", "d", " ",
      "e", "n", "u", "m", " ", "a", "t", " ", "f", ":", "3", ")">>

EnumA == Leaf("EnumConstantDecl", <<"A">>, <<>>, "none")

\* struct T;   class U { public: int x; };   enum E { A };
NestedT == Entity("StructDecl", <<"T">>, <<>>, "public", {}, None, <<>>)
NestedU == Entity("ClassDecl", <<"U">>, <<>>, "public", {}, None, <<FieldX>>)
NestedE == Entity("EnumDecl", <<"E">>, <<>>, "public", {}, None, <<EnumA>>)

\* struct { int x; } s;   union { int x; } u;   enum { A } e;   struct { int x; };
AnonStruct == Entity("StructDecl", NameAnonStruct, <<>>, "public", {}, None, <<FieldX>>)
AnonUnion == Entity("UnionDecl", NameAnonUnion, <<>>, "public", {}, None, <<FieldX>>)
AnonEnum == Entity("EnumDecl", NameAnonEnum, <<>>, "public", {}, None, <<EnumA>>)
AnonMember == Entity("StructDecl", NameAnonMember, <<>>, "public", {}, None, <<FieldX>>)
FieldAnonStruct == Entity("FieldDecl", <<"s">>, TypeAnonStruct, "public", {}, None, <<AnonStruct>>)
FieldAnonUnion == Entity("FieldDecl", <<"u">>, TypeAnonUnion, "public", {}, None, <<AnonUnion>>)
FieldAnonEnum == Entity("FieldDecl", <<"e">>, TypeAnonEnum, "public", {}, None, <<AnonEnum>>)

\* struct V { struct { int x; } s; };
NestedV ==
    Entity("StructDecl", <<"V">>, <<>>, "public", {}, None, <<AnonStruct, FieldAnonStruct>>)

StructS(children) == Entity("StructDecl", NameS, <<>>, "none", {}, None, children)

ShapeForward == StructS(<<>>)
ShapeFull == StructS(<<FieldX, FieldP, CtorS, MethodM, MethodQ>>)
ShapeClass == Entity("ClassDecl", NameS, <<>>, "none", {}, Some("c"), <<MethodK>>)
ShapeUnion == Entity("UnionDecl", NameS, <<>>, "none", {}, None, <<FieldX>>)
ShapeTemplate ==
    Entity("ClassTemplate", NameS, <<>>, "none", {}, None,
           <<Leaf("TemplateTypeParameter", <<"T">>, <<>>, "none"), MethodM>>)
ShapeT == StructS(<<NestedT>>)
ShapeTU == StructS(<<NestedT, NestedU>>)
ShapeET == StructS(<<NestedE, NestedT>>)
ShapeAnonStruct == StructS(<<AnonStruct, FieldAnonStruct>>)
ShapeAnonUnion == StructS(<<AnonUnion, FieldAnonUnion>>)
ShapeAnonEnum == StructS(<<AnonEnum, FieldAnonEnum>>)
ShapeEAnon == StructS(<<NestedE, AnonStruct, FieldAnonStruct, AnonMember>>)
ShapeEV == StructS(<<NestedE, NestedV>>)
ShapeR == Entity("StructDecl", <<"R">>, <<>>, "none", {}, None, <<FieldX, NestedE>>)

RecordShapes ==
    {ShapeForward, ShapeFull, ShapeClass, ShapeUnion, ShapeTemplate, ShapeT, ShapeTU,
     ShapeET, ShapeAnonStruct, ShapeAnonUnion, ShapeAnonEnum, ShapeEAnon, ShapeEV, ShapeR}

----------------------------------------------------------------------------
(* Actions of the builder *)

\* main before its loop over the input files
NewBatch == [outcomes |-> << >>, warnings |-> 0, status |-> "running"]

Init ==
    /\ root = DefaultNamespace
    /\ index = << >>
    /\ stack = << >>
    /\ fileNo = 0
    /\ trace = << >>
    /\ cur = << >>
    /\ batch = NewBatch

\* Parser::parse is at work on the latest input file
InFile == batch.outcomes # << >> /\ batch.outcomes[Len(batch.outcomes)] = "parsed"

\* main's loop hands the next input file to Parser::parse
BeginFile ==
    /\ batch.status = "running"
    /\ Depth = 0
    /\ Len(batch.outcomes) < MaxFiles
    /\ fileNo' = fileNo + 1
    /\ batch' = [batch EXCEPT !.outcomes = Append(@, "parsed")]
    /\ UNCHANGED <<root, index, stack, trace, cur>>

\* glob yields an Err for the next path: report_warning, and the loop goes on
GlobError ==
    /\ batch.status = "running"
    /\ Depth = 0
    /\ Len(batch.outcomes) < MaxFiles
    /\ batch' = [batch EXCEPT !.outcomes = Append(@, "unreadable"), !.warnings = @ + 1]
    /\ UNCHANGED <<root, index, stack, fileNo, trace, cur>>

\* Parser::parse: the translation unit cannot be built and .parse().unwrap() panics
ParseFails ==
    /\ batch.status = "running"
    /\ Depth = 0
    /\ Len(batch.outcomes) < MaxFiles
    /\ fileNo' = fileNo + 1
    /\ batch' = [batch EXCEPT !.outcomes = Append(@, "unparseable"), !.status = "aborted"]
    /\ UNCHANGED <<root, index, stack, trace, cur>>

\* parse_node on an entity of a kind that does not recurse
ParseNodeLeaf(node, ns, idx, cns) ==
    CASE node.kind \in FunctionKinds -> ParseNodeFunction(node, ns, idx, cns)
      [] node.kind \in RecordKinds -> ParseNodeRecord(node, ns, idx, cns)
      [] node.kind = "EnumDecl" -> ParseNodeEnum(node, ns, idx, cns)
      [] node.kind = "TypeAliasDecl" -> ParseNodeAlias(node, ns, idx, cns)
      [] OTHER -> [ns |-> ns, index |-> idx]

Visit(node, limit) ==
    /\ batch.status = "running"
    /\ InFile
    /\ Visited < limit
    /\ ~ParseNodePanics(node)
    /\ LET r == ParseNodeLeaf(node, CurNs, index, CurName)
           w == WriteAt(root, stack, Depth, r.ns)
       IN  /\ root' = w.root
           /\ stack' = w.stack
           /\ index' = r.index
    /\ trace' = Append(trace, Event("visit", node, CurName))
    /\ UNCHANGED <<fileNo, cur, batch>>

\* parse_node on a Namespace entity, up to the loop over its children
Enter(node, limit) ==
    /\ batch.status = "running"
    /\ InFile
    /\ Visited < limit
    /\ Depth < MaxDepth
    /\ ~ParseNodePanics(node)
    /\ LET ns == CurNs
           absolute_name == GetNameForNamespace(node.name, ns.name, CurName)
           pos == FindByName(ns.namespaces, node.name)
       IN  /\ index' = Insert(index, absolute_name, KNamespace)
           /\ stack' = Append(stack,
                  Frame(node.name, ChildNamespaceName(CurName, node.name),
                        pos # 0, pos, NewNamespace(node, CurName)))
    /\ trace' = Append(trace, Event("enter", node, CurName))
    /\ UNCHANGED <<root, fileNo, cur, batch>>

\* parse_node on an entity that lacks a name or a type the builder unwraps:
\* the panic ends the process inside the file loop of main
VisitPanics(node, limit) ==
    /\ batch.status = "running"
    /\ InFile
    /\ Visited < limit
    /\ ParseNodePanics(node)
    /\ batch' = [batch EXCEPT !.status = "aborted"]
    /\ trace' = Append(trace, Event("visit", node, CurName))
    /\ UNCHANGED <<root, index, stack, fileNo, cur>>

\* ExitNamespace without the already_exists test
ExitNamespaceAlwaysPush ==
    /\ batch.status = "running"
    /\ Depth > 0
    /\ LET f == stack[Depth]
           below == SubSeq(stack, 1, Depth - 1)
           parent == NodeAt(root, below, Depth - 1)
           w == WriteAt(root, below, Depth - 1,
                        [parent EXCEPT !.namespaces = Append(@, f.real_ns)])
       IN  /\ root' = w.root
           /\ stack' = w.stack
    /\ UNCHANGED <<index, fileNo, trace, cur, batch>>

\* parse_node on a Namespace entity, after the loop over its children
ExitNamespace ==
    /\ batch.status = "running"
    /\ Depth > 0
    /\ LET f == stack[Depth]
           below == SubSeq(stack, 1, Depth - 1)
           parent == NodeAt(root, below, Depth - 1)
           w == IF f.exists
                THEN [root |-> root, stack |-> below]
                ELSE WriteAt(root, below, Depth - 1,
                             [parent EXCEPT !.namespaces = Append(@, f.real_ns)])
       IN  /\ root' = w.root
           /\ stack' = w.stack
    /\ UNCHANGED <<index, fileNo, trace, cur, batch>>

VisitFunction == \E node \in FunctionEntities : Visit(node, MaxEntities)
VisitRecord == \E node \in RecordEntities : Visit(node, MaxEntities)
EnterNamespace == \E node \in NamespaceEntities : Enter(node, MaxEntities)

Next ==
    \/ BeginFile
    \/ EnterNamespace
    \/ ExitNamespace
    \/ VisitFunction
    \/ VisitRecord

Spec == Init /\ [][Next]_vars

\* main's loop over the input files has ended
Finish ==
    /\ batch.status = "running"
    /\ Depth = 0
    /\ batch' = [batch EXCEPT !.status = "done"]
    /\ UNCHANGED <<root, index, stack, fileNo, trace, cur>>

\* The batch: files that parse, paths glob cannot read, files that libclang
\* cannot turn into a translation unit
VisitBatch == \E node \in BatchEntities : Visit(node, MaxBatch)
EnterBatch == Enter(NamespaceN, MaxBatch)

NextBatch ==
    \/ BeginFile
    \/ GlobError
    \/ ParseFails
    \/ EnterBatch
    \/ ExitNamespace
    \/ VisitBatch
    \/ Finish

SpecBatch == Init /\ [][NextBatch]_vars

----------------------------------------------------------------------------
(* The builder fed with entities of every kind parse_node dispatches on:   *)
(* enums, type aliases, a function whose name holds quotes, entities that  *)
(* lack a name or a type, and entities that come from an included file.    *)

NameE == <<"E">>
NameA == <<"A">>
NameQuoted == <<"o", "p", "e", "r", "a", "t", "o", "r", "\"", "\"", "_", "x">>
TypeRefS == Leaf("TypeRef", <<"s", "t", "r", "u", "c", "t", " ", "S">>, <<>>, "none")
TypeRefT == Leaf("TypeRef", <<"T">>, TInt, "none")
TemplateRefV == Leaf("TemplateRef", <<"v", "e", "c">>, <<>>, "none")
NamespaceRefN == Leaf("NamespaceRef", NameN, <<>>, "none")
Alias(children) == Entity("TypeAliasDecl", NameA, <<>>, "none", {}, None, children)

\* enum E { a };
EnumE ==
    Entity("EnumDecl", NameE, <<>>, "none", {}, None,
           <<Leaf("EnumConstantDecl", <<"a">>, <<>>, "none")>>)
\* using A = int;   using A = S;   using A = T;  (T a typedef of int)
AliasBuiltin == Alias(<<>>)
AliasStruct == Alias(<<TypeRefS>>)
AliasTypedef == Alias(<<TypeRefT>>)
\* using A = vec<S, T>;   using A = vec<int>;
AliasTemplate == Alias(<<TemplateRefV, TypeRefS, TypeRefT>>)
AliasTemplateBuiltin == Alias(<<TemplateRefV>>)
\* using A = n::vec<S, T>;   using A = vec<n::S>;
AliasQualified == Alias(<<NamespaceRefN, TemplateRefV, TypeRefS, TypeRefT>>)
AliasQualifiedArg == Alias(<<TemplateRefV, NamespaceRefN, TypeRefS>>)
\* void operator""_x();
FunctionQuoted == Entity("FunctionDecl", NameQuoted, TVoid, "none", {}, None, <<>>)
\* struct S { private: <no type> p; void q(<no type>); };
StructHidden ==
    Entity("StructDecl", NameS, <<>>, "none", {}, None,
           <<Leaf("FieldDecl", <<"p">>, <<>>, "private"),
             Entity("Method", <<"q">>, TVoid, "private", {}, None,
                    <<Leaf("ParmDecl", <<>>, <<>>, "none")>>)>>)

\* struct R { enum E { A }; struct S { enum T { A }; }; };
StructDeep ==
    Entity("StructDecl", <<"R">>, <<>>, "none", {}, None,
           <<NestedE,
             Entity("StructDecl", NameS, <<>>, "public", {}, None,
                    <<Entity("EnumDecl", <<"T">>, <<>>, "public", {}, None, <<EnumA>>)>>)>>)

\* struct { int x; } v;  at namespace scope
StructUnnamed == Entity("StructDecl", NameAnonStruct, <<>>, "none", {}, None, <<FieldX>>)

AliasEntities ==
    {AliasBuiltin, AliasStruct, AliasTypedef, AliasTemplate, AliasTemplateBuiltin,
     AliasQualified, AliasQualifiedArg}
BuildEntities ==
    AliasEntities \cup
    {EnumE, FunctionF0, FunctionQuoted, StructSX, StructHidden, StructDeep, StructUnnamed}

\* Entities without a name, a result type, or the type of a parameter or of
\* a public field
MalformedEntities ==
    {Entity("FunctionDecl", <<>>, TVoid, "none", {}, None, <<>>),
     Entity("FunctionDecl", NameF, <<>>, "none", {}, None, <<>>),
     Entity("FunctionDecl", NameF, TVoid, "none", {}, None,
            <<Leaf("ParmDecl", <<"x">>, <<>>, "none")>>),
     Entity("StructDecl", <<>>, <<>>, "none", {}, None, <<>>),
     Entity("StructDecl", NameS, <<>>, "none", {}, None,
            <<Leaf("FieldDecl", <<"x">>, <<>>, "public")>>),
     Entity("EnumDecl", <<>>, <<>>, "none", {}, None, <<>>),
     Entity("Namespace", <<>>, <<>>, "none", {}, None, <<>>),
     Entity("TypeAliasDecl", <<>>, <<>>, "none", {}, None, <<>>)}

\* Parser::parse: a top-level cursor for which is_in_main_file() is false is
\* not handed to parse_node
SkipIncluded(node, limit) ==
    /\ batch.status = "running"
    /\ InFile
    /\ Visited < limit
    /\ Depth = 0
    /\ trace' = Append(trace, Event("skip", node, CurName))
    /\ UNCHANGED <<root, index, stack, fileNo, cur, batch>>

\* parse_node's loop over the children of a namespace: the child is parsed
\* without a test of the file it comes from
VisitIncluded(node, limit) ==
    /\ batch.status = "running"
    /\ InFile
    /\ Visited < limit
    /\ Depth > 0
    /\ ~ParseNodePanics(node)
    /\ LET r == ParseNodeLeaf(node, CurNs, index, CurName)
           w == WriteAt(root, stack, Depth, r.ns)
       IN  /\ root' = w.root
           /\ stack' = w.stack
           /\ index' = r.index
    /\ trace' = Append(trace, Event("included", node, CurName))
    /\ UNCHANGED <<fileNo, cur, batch>>

VisitBuild == \E node \in BuildEntities \cup MalformedEntities : Visit(node, MaxBuild)
VisitMalformed == \E node \in BuildEntities \cup MalformedEntities : VisitPanics(node, MaxBuild)
EnterBuild == Enter(NamespaceN, MaxBuild)
SkipIncludedFile == \E node \in {EnumE, StructSX} : SkipIncluded(node, MaxBuild)
VisitIncludedFile == \E node \in {EnumE, StructSX} : VisitIncluded(node, MaxBuild)

NextBuild ==
    \/ BeginFile
    \/ EnterBuild
    \/ ExitNamespace
    \/ VisitBuild
    \/ VisitMalformed
    \/ SkipIncludedFile
    \/ VisitIncludedFile
    \/ Finish

SpecBuild == Init /\ [][NextBuild]_vars

\* The builder fed with records of every shape, at global scope and in namespace n
VisitShape == \E node \in RecordShapes : Visit(node, MaxRecords)
EnterShapeNamespace == Enter(NamespaceN, MaxRecords)

NextRecord ==
    \/ BeginFile
    \/ EnterShapeNamespace
    \/ ExitNamespace
    \/ VisitShape

SpecRecord == Init /\ [][NextRecord]_vars

----------------------------------------------------------------------------
(* Cross-reference resolution: render::get_path_for_name and               *)
(* templates::get_link_for_type, over strings of ASCII characters          *)

Slash == <<"/">>
SlashWord == <<"s", "l", "a", "s", "h">>
Dot == <<".">>
LAngle == <<"<">>
RAngle == <<">">>
ConstPrefix == <<"c", "o", "n", "s", "t", " ">>
Decoration == {"&", " ", "*"}

\* config.output.base_url
BaseUrl == <<"/", "d">>

\* get_path_for_name without the early return of index.get(name)?
GetPathForNameNoMiss(name, idx) ==
    LET kind == IF name \in DOMAIN idx THEN idx[name] ELSE <<>>
        trimmed == TrimStartMatches(name, Sep)
        parts == Split(trimmed, Sep)
    IN  IF kind = KNamespace THEN Some(Replace(name, Sep, Slash))
        ELSE IF Contains(trimmed, Sep)
        THEN Some(Join(SubSeq(parts, 1, Len(parts) - 1), Slash) \o Slash \o kind \o Dot
                  \o Replace(parts[Len(parts)], Slash, SlashWord))
        ELSE Some(kind \o Dot \o Replace(trimmed, Slash, SlashWord))

\* get_path_for_name with the base name copied as it is
GetPathForNameUnescaped(name, idx) ==
    IF name \notin DOMAIN idx THEN None
    ELSE LET kind == idx[name]
             trimmed == TrimStartMatches(name, Sep)
             parts == Split(trimmed, Sep)
         IN  IF kind = KNamespace THEN Some(Replace(name, Sep, Slash))
             ELSE IF Contains(trimmed, Sep)
             THEN Some(Join(SubSeq(parts, 1, Len(parts) - 1), Slash) \o Slash \o kind \o Dot
                       \o parts[Len(parts)])
             ELSE Some(kind \o Dot \o trimmed)

\* render::get_path_for_name
GetPathForName(name, idx) ==
    IF name \notin DOMAIN idx THEN None
    ELSE LET kind == idx[name]
             trimmed == TrimStartMatches(name, Sep)
             parts == Split(trimmed, Sep)
         IN  IF kind = KNamespace THEN Some(Replace(name, Sep, Slash))
             ELSE IF Contains(trimmed, Sep)
             THEN Some(Join(SubSeq(parts, 1, Len(parts) - 1), Slash) \o Slash \o kind \o Dot
                       \o Replace(parts[Len(parts)], Slash, SlashWord))
             ELSE Some(kind \o Dot \o Replace(trimmed, Slash, SlashWord))

\* cleanup_type
CleanupType(type_) ==
    Replace(Replace(type_, <<" ", "&">>, <<"<", "/", "s", "p", "a", "n", ">", "&">>),
            <<" ", "*">>, <<"<", "/", "s", "p", "a", "n", ">", "*">>)

\* format!("<span class=\"kt\">{}</span>", cleanup_type(t))
Span(t) == 
        <<"<", "s", "p", "a", "n", " ", "c", "l", "a", "s", "s", "=", "\"", "k", "t", "\"",
          ">">> \o CleanupType(t) \o <<"<", "/", "s", "p", "a", "n", ">">>

\* format!("<a href=\"{}/{}.html\"><span class=\"kt\">{}</span></a>{}", base_url, ret, text, suffix)
Anchor(ret, text, suffix) ==
    <<"<", "a", " ", "h", "r", "e", "f", "=", "\"">> \o BaseUrl \o Slash \o ret
    \o 
        <<".", "h", "t", "m", "l", "\"", ">", "<", "s", "p", "a", "n", " ", "c", "l", "a", "s",
          "s", "=", "\"", "k", "t", "\"", ">">>
    \o text \o <<"<", "/", "s", "p", "a", "n", ">", "<", "/", "a", ">">> \o suffix

\* The locals of get_link_for_type computed before its branches
CleanedName(name) == TrimChars(TrimStartMatches(name, ConstPrefix), Decoration)
NameWithoutSuffix(name) == TrimChars(name, Decoration)
Suffix(name) == Trim(TrimStartMatches(name, NameWithoutSuffix(name)))

\* A character outside ASCII takes more than one byte of the UTF-8 string;
\* the model's only such character is a two-byte one
WideChars == {"\\u00e9"}
Width(c) == IF c \in WideChars THEN 2 ELSE 1

\* The byte offset of the end of the first k characters, and str::len
RECURSIVE ByteOffset(_, _)
ByteOffset(name, k) == IF k = 0 THEN 0 ELSE ByteOffset(name, k - 1) + Width(name[k])
ByteLen(name) == ByteOffset(name, Len(name))

\* str::is_char_boundary
IsCharBoundary(name, b) == \E k \in 0..Len(name) : ByteOffset(name, k) = b

\* &name[from..to] does not panic
SliceOk(name, from, to) ==
    /\ from <= to
    /\ to <= ByteLen(name)
    /\ IsCharBoundary(name, from)
    /\ IsCharBoundary(name, to)

\* &name[from..to], the offsets counting bytes: the characters lying between them
ByteSlice(name, from, to) ==
    LET ks == {k \in 1..Len(name) : from <= ByteOffset(name, k - 1) /\ ByteOffset(name, k) <= to}
    IN  [j \in 1..Cardinality(ks) |->
            name[CHOOSE k \in ks : Cardinality({m \in ks : m < k}) = j - 1]]

\* The loop over name.chars().enumerate() from 0-based position i on:
\* `ranges` are the pairs <<start, i>> of the slices &name[start..i] pushed so
\* far; i counts characters and the slice takes it as a byte offset
RECURSIVE ScanParams(_, _, _, _, _)
ScanParams(name, i, depth, start, ranges) ==
    IF i >= Len(name) THEN ranges
    ELSE LET c == name[i + 1]
             start1 == IF c = "<" /\ depth = 0 THEN i + 1 ELSE start
             depth1 == IF c = "<" THEN depth + 1 ELSE depth
         IN  IF c = "," /\ depth1 = 1
             THEN ScanParams(name, i + 1, depth1, i + 1, Append(ranges, <<start1, i>>))
             ELSE IF c = ">"
             THEN ScanParams(name, i + 1, depth1 - 1, start1,
                             IF depth1 - 1 = 0 THEN Append(ranges, <<start1, i>>) ELSE ranges)
             ELSE ScanParams(name, i + 1, depth1, start1, ranges)

\* type_params
TypeParams(name) ==
    LET ranges == ScanParams(name, 0, 0, 0, <<>>)
    IN  [k \in 1..Len(ranges) |-> ByteSlice(name, ranges[k][1], ranges[k][2])]

\* The scan panics: a pushed slice does not lie on character boundaries
ScanPanics(name) ==
    LET ranges == ScanParams(name, 0, 0, 0, <<>>)
    IN  \E k \in 1..Len(ranges) : ~SliceOk(name, ranges[k][1], ranges[k][2])

\* get_link_for_type panics: in its own scan or in the call on an argument
RECURSIVE Panics(_)
Panics(name) ==
    /\ Contains(name, LAngle)
    /\ \/ ScanPanics(name)
       \/ \E k \in 1..Len(TypeParams(name)) : Panics(Trim(TypeParams(name)[k]))

\* AbsoluteName that keeps the leading "::"
AbsoluteNameKept(cleaned) == cleaned

\* cleaned_name.trim_start_matches("::")
AbsoluteName(cleaned) == TrimStartMatches(cleaned, Sep)

\* ParentLookups without parts.pop(): only the whole namespace is tried
ParentLookupsNoPop(parts, cleaned) ==
    IF parts = <<>> THEN <<>> ELSE <<Qualify(Join(parts, Sep), cleaned)>>

\* The names tried by the loop over the parent namespaces, in order
RECURSIVE ParentLookups(_, _)
ParentLookups(parts, cleaned) ==
    IF parts = <<>> THEN <<>>
    ELSE <<Qualify(Join(parts, Sep), cleaned)>>
         \o ParentLookups(SubSeq(parts, 1, Len(parts) - 1), cleaned)

\* Lookups whose later stages use the name with its leading "::" stripped
LookupsStripped(name, curr_namespace) ==
    LET cleaned == AbsoluteName(CleanedName(name))
    IN  (IF StartsWith(CleanedName(name), Sep) THEN <<cleaned>> ELSE <<>>)
        \o <<Qualify(curr_namespace, cleaned), cleaned>>
        \o ParentLookups(Split(curr_namespace, Sep), cleaned)

\* Lookups with the global namespace tried before the current one
LookupsGlobalFirst(name, curr_namespace) ==
    LET cleaned == CleanedName(name)
    IN  (IF StartsWith(cleaned, Sep) THEN <<AbsoluteName(cleaned)>> ELSE <<>>)
        \o <<cleaned, Qualify(curr_namespace, cleaned)>>
        \o ParentLookups(Split(curr_namespace, Sep), cleaned)

\* The names handed to get_path_for_name until one is found, in order
Lookups(name, curr_namespace) ==
    LET cleaned == CleanedName(name)
    IN  (IF StartsWith(cleaned, Sep) THEN <<AbsoluteName(cleaned)>> ELSE <<>>)
        \o <<Qualify(curr_namespace, cleaned), cleaned>>
        \o ParentLookups(Split(curr_namespace, Sep), cleaned)

\* The first lookup that get_path_for_name answers
RECURSIVE FirstHit(_, _)
FirstHit(names, idx) ==
    IF names = <<>> THEN None
    ELSE IF IsSome(GetPathForName(names[1], idx))
    THEN Some([key |-> names[1], path |-> Unwrap(GetPathForName(names[1], idx))])
    ELSE FirstHit(Tail(names), idx)

\* get_link_for_type on an expression without '<': the index entry hit and
\* the arguments of the format! call, or None
ResolvePlain(name, curr_namespace, idx) ==
    LET hit == FirstHit(Lookups(name, curr_namespace), idx)
    IN  IF IsSome(hit)
        THEN Some([key |-> Unwrap(hit).key,
                   path |-> Unwrap(hit).path,
                   text |-> NameWithoutSuffix(name),
                   suffix |-> Suffix(name)])
        ELSE None

\* get_link_for_type
RECURSIVE GetLinkForType(_, _, _)
GetLinkForType(name, curr_namespace, idx) ==
    IF Contains(name, LAngle)
    THEN LET type_name == Trim(Split(name, LAngle)[1])
             type_params == TypeParams(name)
             pieces == Split(name, RAngle)
             suffix == Trim(pieces[Len(pieces)])
             LinkOrSpan(t) ==
                 LET link == GetLinkForType(t, curr_namespace, idx)
                 IN  IF IsSome(link) THEN Unwrap(link) ELSE Span(t)
             ret == Join([i \in 1..Len(type_params) |-> LinkOrSpan(Trim(type_params[i]))],
                         <<",", " ">>)
         IN  Some(LinkOrSpan(type_name) \o <<"&", "l", "t", ";">> \o ret
                  \o <<"&", "g", "t", ";">> \o suffix)
    ELSE LET hit == ResolvePlain(name, curr_namespace, idx)
         IN  IF IsSome(hit)
             THEN Some(Anchor(Unwrap(hit).path, Unwrap(hit).text, Unwrap(hit).suffix))
             ELSE None

----------------------------------------------------------------------------
(* The render phase.  Each template function owns a copy of the index the  *)
(* build phase left; the indexes considered are those the builder leaves   *)
(* for the nested namespaces a, a::b, a::b::c, ... with a declaration T in *)
(* any of them or at global scope, operator functions and a record Foo.    *)

ChainNames == <<"a", "b", "c", "d", "e", "g">>
NameT == <<"T">>
NameFoo == <<"F", "o", "o">>
OperatorStar == <<"o", "p", "e", "r", "a", "t", "o", "r", "*">>
OperatorLess == <<"o", "p", "e", "r", "a", "t", "o", "r", "<">>
OperatorDiv == <<"o", "p", "e", "r", "a", "t", "o", "r", "/">>

\* current_namespace_name inside the k innermost-nested namespaces
RECURSIVE NamespaceAt(_)
NamespaceAt(k) ==
    IF k = 0 THEN <<>> ELSE ChildNamespaceName(NamespaceAt(k - 1), <<ChainNames[k]>>)

\* The index key of `name` declared in NamespaceAt(k)
KeyAt(k, name) == GetNameForNamespace(name, <<>>, NamespaceAt(k))

Contexts == {NamespaceAt(k) : k \in 0..MaxNsDepth}

KindAt(k) == <<KRecord, KEnum, KAlias>>[(k % 3) + 1]

OperatorKeys == {KeyAt(1, OperatorStar), KeyAt(2, OperatorLess), KeyAt(2, OperatorDiv)}

\* The index after the namespaces, T in the namespaces of depth ks, and the
\* optional declarations
RenderIndex(ks, withOps) ==
    [key \in {KeyAt(k - 1, <<ChainNames[k]>>) : k \in 1..MaxNsDepth}
             \cup {KeyAt(k, NameT) : k \in ks}
             \cup (IF withOps THEN OperatorKeys \cup {NameFoo} ELSE {}) |->
        IF key \in OperatorKeys THEN KFunction
        ELSE IF key = NameFoo THEN KRecord
        ELSE IF \E k \in ks : key = KeyAt(k, NameT)
        THEN KindAt(CHOOSE k \in ks : key = KeyAt(k, NameT))
        ELSE KNamespace]

\* T is declared in at most two of the namespaces
RenderIndexes ==
    {RenderIndex(ks, w) : ks \in {x \in SUBSET (0..MaxNsDepth) : Cardinality(x) <= 2},
                          w \in BOOLEAN}

AllKeys == DOMAIN RenderIndex(0..MaxNsDepth, TRUE)

LastComponent(key) == Split(key, Sep)[Len(Split(key, Sep))]
Qualifier(key) == Join(SubSeq(Split(key, Sep), 1, Len(Split(key, Sep)) - 1), Sep)

ExprConstRef == <<"c", "o", "n", "s", "t", " ", "T", "&">>
ExprPointer == <<"T", " ", "*">>
ExprNested == <<"F", "o", "o", "<", "B", "a", "r", "<", "B", "a", "z", ">", ",", "Q", "u", "x", ">">>
ExprTwoLists == <<"A", "<", "B", ">", ":", ":", "C", "<", "D", ">">>
ExprArgs == <<"F", "o", "o", "<", "T", ",", " ", ":", ":", "a", ":", ":", "T", ">", " ", "&">>

\* The type expressions handed to get_link_for_type: every key written
\* absolutely, every last component, decorated and templated expressions
TypeExprs ==
    {Sep \o key : key \in AllKeys} \cup {LastComponent(key) : key \in AllKeys}
    \cup {ExprConstRef, ExprPointer, ExprNested, ExprTwoLists, ExprArgs}

InitRender ==
    /\ root = DefaultNamespace
    /\ index \in RenderIndexes
    /\ stack = << >>
    /\ fileNo = 0
    /\ trace = << >>
    /\ cur = << >>
    /\ batch = NewBatch

\* One call of get_link_for_type and what it returns
Resolve ==
    \E name \in TypeExprs, curr_namespace \in Contexts :
        /\ cur' = [name |-> name,
                   curr_namespace |-> curr_namespace,
                   ret |-> GetLinkForType(name, curr_namespace, index)]
        /\ UNCHANGED <<root, index, stack, fileNo, trace, batch>>

NextRender == Resolve

SpecResolve == InitRender /\ [][NextRender]_vars

----------------------------------------------------------------------------
(* get_link_for_type as a function of its input: one call on any string   *)
(* of at most MaxExprLen characters, brackets, commas, separators, spaces  *)
(* and a character outside ASCII included.                                 *)

ExprChars == {"T", "<", ">", ",", ":", " "} \cup WideChars

Exprs == UNION {[1..n -> ExprChars] : n \in 0..MaxExprLen}

InitCall ==
    /\ root = DefaultNamespace
    /\ index = RenderIndex({0, 2}, FALSE)
    /\ stack = << >>
    /\ fileNo = 0
    /\ trace = << >>
    /\ cur \in {[name |-> name, curr_namespace |-> ns, state |-> "called", ret |-> None] :
                    name \in Exprs, ns \in {NamespaceAt(0), NamespaceAt(2)}}
    /\ batch = NewBatch

\* The call runs to its return
Return ==
    /\ cur.state = "called"
    /\ ~Panics(cur.name)
    /\ cur' = [cur EXCEPT !.state = "returned",
                          !.ret = GetLinkForType(cur.name, cur.curr_namespace, index)]
    /\ UNCHANGED <<root, index, stack, fileNo, trace, batch>>

\* The call panics on a slice that is not on a character boundary
Abort ==
    /\ cur.state = "called"
    /\ Panics(cur.name)
    /\ cur' = [cur EXCEPT !.state = "panicked"]
    /\ UNCHANGED <<root, index, stack, fileNo, trace, batch>>

NextCall == Return \/ Abort

SpecCall == InitCall /\ [][NextCall]_vars

----------------------------------------------------------------------------
(* Rendering workers.  Each worker makes get_link_for_type calls on        *)
(* expressions without '<'; a call reads the shared index once per lookup  *)
(* it tries, and the lookups of different workers interleave.              *)

Workers == 1..NumWorkers

WorkerExprs == {NameT, Sep \o KeyAt(1, NameT), ExprConstRef}
WorkerContexts == {NamespaceAt(1), NamespaceAt(2)}

IdleCall == [name |-> <<>>, curr_namespace |-> <<>>, state |-> "idle", todo |-> <<>>, ret |-> None]

InitWorkers ==
    /\ root = DefaultNamespace
    /\ index \in {RenderIndex({}, FALSE), RenderIndex({1}, FALSE), RenderIndex({0, 2}, FALSE)}
    /\ stack = << >>
    /\ fileNo = 0
    /\ trace = << >>
    /\ cur = [w \in Workers |-> IdleCall]
    /\ batch = [NewBatch EXCEPT !.status = "done"]

\* Worker w enters get_link_for_type
Start(w) ==
    /\ cur[w].state # "looking"
    /\ \E name \in WorkerExprs, curr_namespace \in WorkerContexts :
          cur' = [cur EXCEPT ![w] = [name |-> name,
                                     curr_namespace |-> curr_namespace,
                                     state |-> "looking",
                                     todo |-> Lookups(name, curr_namespace),
                                     ret |-> None]]
    /\ UNCHANGED <<root, index, stack, fileNo, trace, batch>>

\* Lookup that records the entry it found under the name it was asked for
LookupCaching(w) ==
    LET call == cur[w]
        path == GetPathForName(Head(call.todo), index)
        asked == Qualify(call.curr_namespace, CleanedName(call.name))
    IN  /\ call.state = "looking"
        /\ IF IsSome(path)
           THEN /\ cur' = [cur EXCEPT ![w].state = "returned",
                                      ![w].todo = <<>>,
                                      ![w].ret = Some(Anchor(Unwrap(path),
                                                             NameWithoutSuffix(call.name),
                                                             Suffix(call.name)))]
                /\ index' = Insert(index, asked, index[Head(call.todo)])
           ELSE /\ cur' = [cur EXCEPT ![w].state = IF Len(call.todo) = 1 THEN "returned"
                                                    ELSE "looking",
                                      ![w].todo = Tail(call.todo)]
                /\ index' = index
        /\ UNCHANGED <<root, stack, fileNo, trace, batch>>

\* Worker w makes its next get_path_for_name call and returns on a hit or
\* after the last miss
Lookup(w) ==
    LET call == cur[w]
        path == GetPathForName(Head(call.todo), index)
    IN  /\ call.state = "looking"
        /\ IF IsSome(path)
           THEN cur' = [cur EXCEPT ![w].state = "returned",
                                   ![w].todo = <<>>,
                                   ![w].ret = Some(Anchor(Unwrap(path),
                                                          NameWithoutSuffix(call.name),
                                                          Suffix(call.name)))]
           ELSE cur' = [cur EXCEPT ![w].state = IF Len(call.todo) = 1 THEN "returned"
                                                 ELSE "looking",
                                   ![w].todo = Tail(call.todo)]
        /\ UNCHANGED <<root, index, stack, fileNo, trace, batch>>

WorkerStarts == \E w \in Workers : Start(w)
WorkerLooksUp == \E w \in Workers : Lookup(w)

NextWorkers == WorkerStarts \/ WorkerLooksUp

SpecWorkers == InitWorkers /\ [][NextWorkers]_vars

----------------------------------------------------------------------------
(* Views of the state used by the properties *)

\* The namespace nodes below `node`, each with its qualified name
RECURSIVE NodesUnder(_, _)
NodesUnder(node, q) ==
    {<<q, node>>} \cup
    UNION {NodesUnder(node.namespaces[i], ChildNamespaceName(q, node.namespaces[i].name)) :
              i \in 1..Len(node.namespaces)}

\* Every namespace node of the build: those of the tree and those still
\* held by an active parse_node call
NodesOf(rt, st) ==
    NodesUnder(rt, <<>>) \cup
    UNION {NodesUnder(st[k].real_ns, st[k].cns) : k \in {j \in 1..Len(st) : ~st[j].exists}}

AllNodes == NodesOf(root, stack)

Names(items) == [i \in 1..Len(items) |-> items[i].name]

IsPrefix(a, b) == Len(a) <= Len(b) /\ SubSeq(b, 1, Len(a)) = a

\* The function entities of the history as parse_node's function arm builds them
ParsedFunctions ==
    LET evs == SelectSeq(trace, LAMBDA e : e.ev = "visit" /\ e.node.kind \in FunctionKinds)
    IN  [i \in 1..Len(evs) |-> [ParseFunction(evs[i].node) EXCEPT !.namespace = Some(evs[i].ns)]]

\* The functions parsed under namespace q with (escaped) name f, in visit order
EncounteredIn(parsed, q, f) ==
    SelectSeq(parsed, LAMBDA x : x.namespace = Some(q) /\ x.name = f)

Encountered(q, f) == EncounteredIn(ParsedFunctions, q, f)

FunctionVisitsIn(parsed) == {<<Unwrap(parsed[i].namespace), parsed[i].name>> : i \in 1..Len(parsed)}

\* The first one encountered carries the later ones as its overloads
Collapsed(L) ==
    [L[1] EXCEPT !.overloads = IF Len(L) > 1 THEN Some(Tail(L)) ELSE None]

TopLevel(node, f) == SelectSeq(node.functions, LAMBDA x : x.name = f)

----------------------------------------------------------------------------
(* C1: building the single source                                          *)
(*   namespace n { struct S { int x; }; void f(); void f(int); }           *)
(* from an empty model yields the index {n -> namespace, n::S -> record,   *)
(* n::f -> function}, and namespace n's function list has exactly one      *)
(* entry f whose overload list has exactly one element.                    *)

C1Source ==
    /\ fileNo = 1
    /\ Depth = 0
    /\ Len(trace) = 4
    /\ trace[1].ev = "enter" /\ trace[1].node = NamespaceN /\ trace[1].ns = <<>>
    /\ trace[2].node = StructSX /\ trace[2].ns = NameN
    /\ trace[3].node = FunctionF0 /\ trace[3].ns = NameN
    /\ trace[4].node = FunctionF1 /\ trace[4].ns = NameN

C1Index ==
    [k \in {NameN, Qualify(NameN, NameS), Qualify(NameN, NameF)} |->
        IF k = NameN THEN KNamespace
        ELSE IF k = Qualify(NameN, NameS) THEN KRecord
        ELSE KFunction]

C1EndToEnd ==
    C1Source =>
        /\ index = C1Index
        /\ Len(root.namespaces) = 1
        /\ root.namespaces[1].name = NameN
        /\ Len(root.namespaces[1].functions) = 1
        /\ root.namespaces[1].functions[1].name = NameF
        /\ IsSome(root.namespaces[1].functions[1].overloads)
        /\ Len(Unwrap(root.namespaces[1].functions[1].overloads)) = 1

C1Witness == C1Source /\ index = C1Index

----------------------------------------------------------------------------
(* C2: in every namespace the functions encountered under one name are     *)
(* collapsed into one top-level Function: the first one encountered, with  *)
(* the later ones as its overloads in encounter order, and one index key.  *)

AtMostOnePerName(nodes) ==
    \A p \in nodes :
        \A i, j \in 1..Len(p[2].functions) :
            p[2].functions[i].name = p[2].functions[j].name => i = j

CollapsedIn(nodes, parsed, q, f) ==
    /\ \E p \in nodes :
          /\ p[1] = q
          /\ TopLevel(p[2], f) = <<Collapsed(EncounteredIn(parsed, q, f))>>
    /\ GetNameForNamespace(f, <<>>, q) \in DOMAIN index
    /\ index[GetNameForNamespace(f, <<>>, q)] = KFunction

DiscardedIn(nodes, q, f) ==
    /\ \A p \in nodes : p[1] = q => TopLevel(p[2], f) = <<>>
    /\ GetNameForNamespace(f, <<>>, q) \notin DOMAIN index

\* The index is written for a function only at the first occurrence of its name
FunctionStepWritesIndex ==
    /\ Len(trace') = Len(trace) + 1
    /\ trace'[Len(trace')].ev = "visit"
    /\ trace'[Len(trace')].node.kind \in FunctionKinds
    /\ index' # index

FirstOccurrenceStep ==
    LET e == trace'[Len(trace')]
    IN  /\ Encountered(e.ns, ParseFunction(e.node).name) = <<>>
        /\ DOMAIN index' = DOMAIN index \cup {GetNameForNamespace(e.node.name, <<>>, e.ns)}

\* C2 as claimed: every encountered name has its collapsed top-level entry
C2AsClaimed ==
    LET nodes == AllNodes
        parsed == ParsedFunctions
    IN  /\ AtMostOnePerName(nodes)
        /\ \A v \in FunctionVisitsIn(parsed) : CollapsedIn(nodes, parsed, v[1], v[2])

C2Collapsed ==
    LET nodes == AllNodes
        parsed == ParsedFunctions
    IN  /\ AtMostOnePerName(nodes)
        /\ \A v \in FunctionVisitsIn(parsed) :
              IF Contains(v[2], DeductionGuide)
              THEN DiscardedIn(nodes, v[1], v[2])
              ELSE CollapsedIn(nodes, parsed, v[1], v[2])

\* C2, amended: every encountered name that is not a deduction-guide name
\* has its collapsed top-level entry and its key; a deduction-guide name has
\* neither; and only a first occurrence writes the index.
C2OverloadCollapse ==
    /\ []C2Collapsed
    /\ [][FunctionStepWritesIndex => FirstOccurrenceStep]_vars

\* two functions named f met in a namespace that was opened once in each of two files
C2Witness ==
    \E p \in AllNodes :
        /\ p[1] = NameN
        /\ Len(Encountered(NameN, NameF)) = 2
        /\ Len(trace) = 4
        /\ trace[1].file = 1 /\ trace[3].file = 2
        /\ Len(SelectSeq(trace, LAMBDA e : e.ev = "enter" /\ e.node = NamespaceN /\ e.ns = <<>>)) = 2
        /\ fileNo = 2
        /\ Len(p[2].functions) = 1
        /\ Len(Unwrap(p[2].functions[1].overloads)) = 1

----------------------------------------------------------------------------
(* C3: no namespace node has two child namespaces with the same short      *)
(* name.  Visiting a namespace whose short name already exists under the   *)
(* same parent adds no node, and what its body declares is placed in the   *)
(* existing node after the children already there; a namespace seen for    *)
(* the first time is appended to its parent once, when the traversal of    *)
(* its subtree completes.                                                  *)

QualifiedNames(rt, st) == {p[1] : p \in NodesOf(rt, st)}

NoDuplicateNamespace ==
    /\ \A p \in AllNodes :
          \A i, j \in 1..Len(p[2].namespaces) :
              p[2].namespaces[i].name = p[2].namespaces[j].name => i = j
    /\ \A p, r \in AllNodes : p[1] = r[1] => p = r

\* A namespace being traversed is a child of its parent exactly when it was
\* found there on entry
FrameMatchesParent ==
    \A k \in 1..Depth :
        LET parent == NodeAt(root, stack, k - 1)
        IN  IF stack[k].exists
            THEN /\ stack[k].pos \in 1..Len(parent.namespaces)
                 /\ parent.namespaces[stack[k].pos].name = stack[k].name
            ELSE FindByName(parent.namespaces, stack[k].name) = 0

\* Entering a namespace that exists under the parent adds no node
ReopenStep ==
    (/\ Len(stack') = Len(stack) + 1
     /\ FindByName(CurNs.namespaces, stack'[Len(stack')].name) # 0)
    => /\ root' = root
       /\ QualifiedNames(root', stack') = QualifiedNames(root, stack)
       /\ NodeAt(root', stack', Depth + 1) =
              CurNs.namespaces[FindByName(CurNs.namespaces, stack'[Len(stack')].name)]

\* Entering a namespace seen for the first time leaves the parent as it is
FirstEnterStep ==
    (/\ Len(stack') = Len(stack) + 1
     /\ FindByName(CurNs.namespaces, stack'[Len(stack')].name) = 0)
    => /\ root' = root
       /\ NodeAt(root', stack', Depth) = CurNs
       /\ NodeAt(root', stack', Depth + 1).namespaces = <<>>

\* Children are only ever added after the children already there
AppendOnlyStep ==
    \A p \in AllNodes :
        \E r \in NodesOf(root', stack') :
            /\ r[1] = p[1]
            /\ IsPrefix(Names(p[2].namespaces), Names(r[2].namespaces))
            /\ IsPrefix(Names(p[2].functions), Names(r[2].functions))
            /\ IsPrefix(Names(p[2].records), Names(r[2].records))

\* Leaving a namespace appends it to the parent if and only if it was new
ExitStep ==
    (Len(stack') = Len(stack) - 1)
    => LET before == NodeAt(root, stack, Depth - 1).namespaces
           after == NodeAt(root', stack', Depth - 1).namespaces
       IN  IF stack[Depth].exists
           THEN after = before
           ELSE after = Append(before, stack[Depth].real_ns)

\* Only leaving a new namespace changes the number of namespace nodes in the tree
OtherStep ==
    (Len(stack') >= Len(stack))
    => Cardinality(NodesUnder(root', <<>>)) = Cardinality(NodesUnder(root, <<>>))

C3NamespaceMerge ==
    /\ [](NoDuplicateNamespace /\ FrameMatchesParent)
    /\ [][ReopenStep /\ FirstEnterStep /\ AppendOnlyStep /\ ExitStep /\ OtherStep]_vars

\* namespace n is reopened and a function is added to the node that already
\* holds a record
C3Witness ==
    /\ Depth = 1
    /\ stack[1].exists
    /\ Len(root.namespaces) = 1
    /\ Names(root.namespaces[1].records) = <<NameS>>
    /\ Names(root.namespaces[1].functions) = <<NameF>>
    /\ Len(trace) = 4
    /\ trace[4].node.kind \in FunctionKinds

----------------------------------------------------------------------------
(* Views of the records *)

\* The record entities parsed under namespace q with name `name`, in visit order
RecordEvents(q, name) ==
    SelectSeq(trace, LAMBDA e : /\ e.ev = "visit"
                                /\ e.node.kind \in RecordKinds
                                /\ e.ns = q
                                /\ e.node.name = name)

\* The entity from which the record `name` of namespace q was first built
FirstBuilt(q, name) == RecordEvents(q, name)[1].node

\* The front end names an entity without a name "(anonymous ...)" or
\* "(unnamed ...)"; no declared name starts with a parenthesis
Anonymous(name) == name # <<>> /\ name[1] = "("

\* The entity handed to parse_node by the step being taken
StepNode == trace'[Len(trace')].node

RecordStep ==
    /\ Len(trace') = Len(trace) + 1
    /\ trace'[Len(trace')].ev = "visit"
    /\ StepNode.kind \in RecordKinds

PublicMethodNames(node) ==
    Names(SelectSeq(node.children,
                    LAMBDA c : c.kind \in {"Method", "FunctionTemplate"} /\ c.access = "public"))

----------------------------------------------------------------------------
(* C4: when a record is encountered whose name equals that of a record     *)
(* already present in the same namespace, the public methods of the new    *)
(* parse are appended, in order, to the existing record's method list and  *)
(* nothing else changes: the record's fields, constructors, nested list,   *)
(* kind, template and comment, the other records, the length of the        *)
(* namespace's record list, and the whole index.  Hence every record keeps *)
(* the fields, constructors and nested list of its first parse, and a      *)
(* forward declaration followed by the definition keeps the empty field    *)
(* list.                                                                    *)

ReencounterStep ==
    RecordStep /\ FindByName(CurNs.records, StepNode.name) # 0 =>
        LET i == FindByName(CurNs.records, StepNode.name)
            old == CurNs.records[i]
            after == NodeAt(root', stack', Depth)
            new == after.records[i]
        IN  /\ Len(after.records) = Len(CurNs.records)
            /\ \A j \in 1..Len(after.records) : j # i => after.records[j] = CurNs.records[j]
            /\ Len(new.methods) = Len(old.methods) + Len(PublicMethodNames(StepNode))
            /\ SubSeq(new.methods, 1, Len(old.methods)) = old.methods
            /\ Names(new.methods) = Names(old.methods) \o PublicMethodNames(StepNode)
            /\ new.methods = old.methods \o ParseRecord(StepNode).methods
            /\ [new EXCEPT !.methods = old.methods] = old
            /\ index' = index

FirstParseKept ==
    \A qn \in AllNodes :
        \A i \in 1..Len(qn[2].records) :
            LET rec == qn[2].records[i]
                first == FirstBuilt(qn[1], rec.name)
                parsed == ParseRecord(first)
            IN  /\ rec.fields = parsed.fields
                /\ rec.ctor = parsed.ctor
                /\ rec.kind = parsed.kind
                /\ rec.template = parsed.template
                /\ rec.comment = parsed.comment
                /\ IsSome(rec.nested) = IsSome(parsed.nested)
                /\ first.children = <<>> => rec.fields = <<>>

C4RecordMerge == []FirstParseKept /\ [][ReencounterStep]_vars

\* struct S;  struct S { int x; ... void m(); };  class S { int k() const; };
C4Witness ==
    /\ Len(trace) = 3
    /\ trace[1].node = ShapeForward
    /\ trace[2].node = ShapeFull
    /\ trace[3].node = ShapeClass
    /\ Depth = 0
    /\ Len(root.records) = 1
    /\ root.records[1].fields = <<>>
    /\ root.records[1].ctor = <<>>
    /\ Names(root.records[1].methods) = << <<"m">>, <<"k">> >>
    /\ DOMAIN index = {NameS}

----------------------------------------------------------------------------
(* C5: for every named struct, class, union, class template or enum        *)
(* declared directly inside a record built at namespace scope for the      *)
(* first time, the nested declaration is in the owner's nested list, its   *)
(* namespace attribute is the owner's qualified name, and the index has    *)
(* the key <owner-qualified-name>::<nested-name> with kind record (resp.   *)
(* enum), the first nested record of an owner included.                    *)

NamedNested(node) ==
    SelectSeq(node.children,
              LAMBDA c : c.kind \in RecordKinds \cup {"EnumDecl"} /\ ~Anonymous(c.name))

NestedRegistered(rec, owner, c) ==
    LET tag == IF c.kind = "EnumDecl" THEN "Enum" ELSE "Record"
        kind == IF c.kind = "EnumDecl" THEN KEnum ELSE KRecord
        key == Qualify(owner, c.name)
    IN  /\ IsSome(rec.nested)
        /\ \E k \in 1..Len(Unwrap(rec.nested)) :
              /\ Unwrap(rec.nested)[k].tag = tag
              /\ Unwrap(rec.nested)[k].val.name = c.name
              /\ Unwrap(rec.nested)[k].val.namespace = Some(owner)
        /\ key \in DOMAIN index
        /\ index[key] = kind

C5NestedRegistered ==
    \A qn \in AllNodes :
        \A i \in 1..Len(qn[2].records) :
            LET rec == qn[2].records[i]
                named == NamedNested(FirstBuilt(qn[1], rec.name))
            IN  \A j \in 1..Len(named) :
                    NestedRegistered(rec, ChildNamespaceName(qn[1], rec.name), named[j])

----------------------------------------------------------------------------
(* C6: a public field whose raw type text signals an unnamed struct        *)
(* (resp. union, enum) is stored as a Field whose type text is exactly     *)
(* "struct" (resp. "union", "enum") with the recursively built Record      *)
(* (resp. Enum) of that unnamed type attached inline; and in every state   *)
(* of a build no anonymous struct, union or enum of a record is a          *)
(* component of an index key or an element of a record's nested list.      *)

PublicFields(node) ==
    SelectSeq(node.children, LAMBDA c : c.kind = "FieldDecl" /\ c.access = "public")

ChildNamed(node, name) ==
    CHOOSE c \in {node.children[i] : i \in 1..Len(node.children)} : c.name = name

\* The inline attachment of stored field f, built from field entity c
InlineIs(f, c, kind, text, tag) ==
    LET inner == FirstOfKind(c.children, kind)
    IN  /\ f.type_ = text
        /\ IsSome(f.struct_)
        /\ Unwrap(f.struct_).tag = tag
        /\ Unwrap(f.struct_).val.name = inner.name
        /\ Anonymous(Unwrap(f.struct_).val.name)
        /\ tag = "Record" =>
              Names(Unwrap(f.struct_).val.fields) = Names(PublicFields(inner))
        /\ tag = "Enum" =>
              Names(Unwrap(f.struct_).val.values) =
                  Names(OfKinds(inner.children, {"EnumConstantDecl"}))

FieldStored(f, c) ==
    /\ f.name = c.name
    /\ Contains(c.type, UnnamedStruct) => InlineIs(f, c, "StructDecl", TStruct, "Record")
    /\ Contains(c.type, UnnamedUnion) => InlineIs(f, c, "UnionDecl", TUnion, "Record")
    /\ Contains(c.type, UnnamedEnum) => InlineIs(f, c, "EnumDecl", TEnum, "Enum")
    /\ ~(\/ Contains(c.type, UnnamedStruct)
          \/ Contains(c.type, UnnamedUnion)
          \/ Contains(c.type, UnnamedEnum)) => f.type_ = c.type /\ f.struct_ = None

\* Record `rec` as built from entity `node`: its fields, those of its inline
\* records and those of the records of its nested list
RECURSIVE FieldsStored(_, _)
FieldsStored(rec, node) ==
    LET pub == PublicFields(node)
        nest == IF IsSome(rec.nested) THEN Unwrap(rec.nested) ELSE <<>>
    IN  /\ Len(rec.fields) = Len(pub)
        /\ \A i \in 1..Len(pub) :
              /\ FieldStored(rec.fields[i], pub[i])
              /\ (IsSome(rec.fields[i].struct_) /\ Unwrap(rec.fields[i].struct_).tag = "Record") =>
                    FieldsStored(Unwrap(rec.fields[i].struct_).val,
                                 ChildNamed(pub[i], Unwrap(rec.fields[i].struct_).val.name))
        /\ \A k \in 1..Len(nest) :
              nest[k].tag = "Record" =>
                  FieldsStored(nest[k].val, ChildNamed(node, nest[k].val.name))

RECURSIVE NoAnonymousNested(_)
NoAnonymousNested(rec) ==
    /\ IsSome(rec.nested) =>
          \A k \in 1..Len(Unwrap(rec.nested)) :
              /\ ~Anonymous(Unwrap(rec.nested)[k].val.name)
              /\ Unwrap(rec.nested)[k].tag = "Record" =>
                    NoAnonymousNested(Unwrap(rec.nested)[k].val)
    /\ \A i \in 1..Len(rec.fields) :
          (IsSome(rec.fields[i].struct_) /\ Unwrap(rec.fields[i].struct_).tag = "Record") =>
              NoAnonymousNested(Unwrap(rec.fields[i].struct_).val)

NoAnonymousKey ==
    \A key \in DOMAIN index :
        \A i \in 1..Len(Split(key, Sep)) : ~Anonymous(Split(key, Sep)[i])

C6AnonymousInline ==
    /\ NoAnonymousKey
    /\ \A qn \in AllNodes :
          \A i \in 1..Len(qn[2].records) :
              /\ FieldsStored(qn[2].records[i], FirstBuilt(qn[1], qn[2].records[i].name))
              /\ NoAnonymousNested(qn[2].records[i])

\* namespace n { struct S { enum E { A }; struct { int x; } s; struct { int x; }; }; }
\* struct S { union { int x; } u; };
C6Witness ==
    /\ Len(trace) = 3
    /\ trace[2].node = ShapeEAnon
    /\ trace[2].ns = NameN
    /\ trace[3].node = ShapeAnonUnion
    /\ trace[3].ns = <<>>
    /\ Depth = 0
    /\ Len(root.namespaces) = 1
    /\ LET rec == root.namespaces[1].records[1]
       IN  /\ Names(rec.fields) = << <<"s">> >>
           /\ rec.fields[1].type_ = TStruct
           /\ Unwrap(rec.fields[1].struct_).val.name = NameAnonStruct
           /\ Names(Unwrap(rec.fields[1].struct_).val.fields) = << <<"x">> >>
           /\ Names([k \in 1..Len(Unwrap(rec.nested)) |-> Unwrap(rec.nested)[k].val]) = << <<"E">> >>
    /\ root.records[1].fields[1].type_ = TUnion
    /\ Unwrap(root.records[1].fields[1].struct_).val.kind = TUnion
    /\ DOMAIN index = {NameN, Qualify(NameN, NameS), Qualify(Qualify(NameN, NameS), <<"E">>), NameS}

----------------------------------------------------------------------------
(* Views of a get_link_for_type call *)

\* The call returned the link of an index entry
ReturnsLink(name, curr_namespace) ==
    /\ ~Contains(name, LAngle)
    /\ IsSome(ResolvePlain(name, curr_namespace, index))

\* The index entry the call links to
Target(name, curr_namespace) == Unwrap(ResolvePlain(name, curr_namespace, index))

\* The path of a declaration of kind `kind` named `name` in the namespace `parts`
DeclPath(parts, kind, name) ==
    IF parts = <<>> THEN kind \o Dot \o name
    ELSE Join(parts, Slash) \o Slash \o kind \o Dot \o name

----------------------------------------------------------------------------
(* C7: for every key a::b::c of the index that contains no '<' and whose   *)
(* last component neither begins nor ends with '&', '*' or a space nor     *)
(* begins with "const ", and for every context namespace ns,               *)
(* resolve("::a::b::c", ns) returns a link, and its kind and target path   *)
(* are those returned by resolve("c", "a::b"): the entry a::b::c itself.   *)

PlainKey(key) ==
    LET last == LastComponent(key)
    IN  /\ ~Contains(key, LAngle)
        /\ last # <<>>
        /\ last[1] \notin Decoration
        /\ last[Len(last)] \notin Decoration
        /\ ~StartsWith(last, ConstPrefix)

AbsoluteAgrees(key) ==
    /\ IsSome(cur.ret)
    /\ ReturnsLink(cur.name, cur.curr_namespace)
    /\ ReturnsLink(LastComponent(key), Qualifier(key))
    /\ Target(cur.name, cur.curr_namespace).key = key
    /\ Target(LastComponent(key), Qualifier(key)).key = key
    /\ Target(cur.name, cur.curr_namespace).path = Target(LastComponent(key), Qualifier(key)).path
    /\ index[key] # KNamespace =>
          Target(cur.name, cur.curr_namespace).path =
              DeclPath(SubSeq(Split(key, Sep), 1, Len(Split(key, Sep)) - 1), index[key],
                       Replace(LastComponent(key), Slash, SlashWord))
    /\ cur.ret = Some(Anchor(Target(cur.name, cur.curr_namespace).path, cur.name, <<>>))

\* The claim for every key, whatever its last component contains
C7AsClaimed ==
    \A key \in DOMAIN index :
        (cur # <<>> /\ cur.name = Sep \o key) => AbsoluteAgrees(key)

C7AbsoluteLookup ==
    \A key \in DOMAIN index :
        (cur # <<>> /\ cur.name = Sep \o key /\ PlainKey(key)) => AbsoluteAgrees(key)

\* resolve("::a::b::operator/", "a") with a::b::operator/ in the index
C7Witness ==
    /\ cur # <<>>
    /\ cur.name = Sep \o KeyAt(2, OperatorDiv)
    /\ cur.curr_namespace = NamespaceAt(1)
    /\ KeyAt(2, OperatorDiv) \in DOMAIN index
    /\ IsSome(cur.ret)
    /\ Target(cur.name, cur.curr_namespace).path = 
          <<"a", "/", "b", "/", "f", "u", "n", "c", "t", "i", "o", "n", ".",
            "o", "p", "e", "r", "a", "t", "o", "r", "s", "l", "a", "s", "h">>
    /\ Target(OperatorDiv, NamespaceAt(2)).path = Target(cur.name, cur.curr_namespace).path

----------------------------------------------------------------------------
(* C8: for a template expression with balanced angle brackets the number   *)
(* of arguments is the number of commas at bracket depth 1 plus one, and   *)
(* resolve("Foo<Bar<Baz>,Qux>", ns) has exactly the two arguments          *)
(* "Bar<Baz>" and "Qux", in that order.                                    *)

Count(name, c, i) == Cardinality({j \in 1..i : name[j] = c})

\* The bracket depth after the first i characters
DepthAt(name, i) == Count(name, "<", i) - Count(name, ">", i)

Balanced(name) ==
    /\ \A i \in 1..Len(name) : DepthAt(name, i) >= 0
    /\ DepthAt(name, Len(name)) = 0

DepthOneCommas(name) ==
    Cardinality({i \in 1..Len(name) : name[i] = "," /\ DepthAt(name, i) = 1})

C8ArgumentSplit ==
    (cur # <<>> /\ Contains(cur.name, LAngle) /\ Balanced(cur.name)) =>
        /\ Len(TypeParams(cur.name)) = DepthOneCommas(cur.name) + 1
        /\ cur.name = ExprNested =>
              TypeParams(cur.name) = <<<<"B", "a", "r", "<", "B", "a", "z", ">">>, <<"Q", "u", "x">> >>

----------------------------------------------------------------------------
(* C9: for a context namespace c1::...::cn and a proper prefix             *)
(* p = c1::...::ck (1 <= k < n), if T is a key as p::T, and neither        *)
(* ctx::T, nor T at global scope, nor q::T for a longer proper prefix q is *)
(* a key, then resolve("T", ctx) returns the link of the entry p::T.       *)

NearestAncestor(parts, k) ==
    /\ Qualify(Join(SubSeq(parts, 1, k), Sep), NameT) \in DOMAIN index
    /\ NameT \notin DOMAIN index
    /\ \A j \in (k + 1)..Len(parts) :
          Qualify(Join(SubSeq(parts, 1, j), Sep), NameT) \notin DOMAIN index

C9AncestorFallback ==
    (cur # <<>> /\ cur.name = NameT) =>
        LET parts == Split(cur.curr_namespace, Sep)
        IN  \A k \in 1..(Len(parts) - 1) :
                NearestAncestor(parts, k) =>
                    LET key == Qualify(Join(SubSeq(parts, 1, k), Sep), NameT)
                    IN  /\ ReturnsLink(NameT, cur.curr_namespace)
                        /\ Target(NameT, cur.curr_namespace).key = key
                        /\ cur.ret = Some(Anchor(DeclPath(SubSeq(parts, 1, k), index[key], NameT),
                                                 NameT, <<>>))

\* resolve("T", "a::b::c") with T declared in a only
C9Witness ==
    /\ cur # <<>>
    /\ cur.name = NameT
    /\ cur.curr_namespace = <<"a", ":", ":", "b", ":", ":", "c">>
    /\ index = RenderIndex({1}, FALSE)
    /\ cur.ret = Some(Anchor(<<"a", "/", "e", "n", "u", "m", ".", "T">>, NameT, <<>>))

----------------------------------------------------------------------------
(* C11: for every type-expression string, unbalanced or stray '<', '>'     *)
(* and ',' and the empty string included, every context namespace and     *)
(* every index, resolve returns a link or none and never aborts.           *)

C11NeverAborts == cur.state # "panicked"

----------------------------------------------------------------------------
(* C12: when an input file of the batch cannot be read or parsed, a        *)
(* warning is reported, the file is skipped and the build continues: the   *)
(* process does not stop, one warning is reported per such file, and the   *)
(* entries of the entities visited in the other files are in the index.    *)

Skipped == SelectSeq(batch.outcomes, LAMBDA o : o # "parsed")

C12SkipAndContinue ==
    /\ batch.status # "aborted"
    /\ batch.warnings = Len(Skipped)
    /\ \A i \in 1..Len(trace) :
          GetNameForNamespace(trace[i].node.name, <<>>, trace[i].ns) \in DOMAIN index

----------------------------------------------------------------------------
(* C13: during a build the index is append-only with unique keys: once a   *)
(* qualified name is registered, no later step removes the key or changes  *)
(* the kind stored for it.                                                 *)

KeysKept == \A key \in DOMAIN index : key \in DOMAIN index' /\ index'[key] = index[key]

C13AppendOnly == [][KeysKept]_vars

----------------------------------------------------------------------------
(* C14: after the batch has completed the index is never written again --  *)
(* no step of a resolve call adds, removes or changes an entry -- and      *)
(* under every interleaving of the calls of several rendering workers      *)
(* each call returns what it returns when it runs alone.                   *)

IndexFrozen == index' = index

ReturnsAsAlone ==
    \A w \in Workers :
        cur[w].state = "returned" =>
            cur[w].ret = GetLinkForType(cur[w].name, cur[w].curr_namespace, index)

C14ReadOnly == []ReturnsAsAlone /\ [][IndexFrozen]_vars

\* Worker 1 has returned a link found in an ancestor namespace while worker 2
\* is in the middle of its lookups
C14Witness ==
    /\ batch.status = "done"
    /\ cur[1].state = "returned"
    /\ cur[1].name = NameT
    /\ cur[1].curr_namespace = NamespaceAt(2)
    /\ IsSome(cur[1].ret)
    /\ KeyAt(1, NameT) \in DOMAIN index
    /\ cur[2].state = "looking"
    /\ Len(cur[2].todo) = 1

----------------------------------------------------------------------------
(* C15: when resolve hits an index entry of kind namespace, the target     *)
(* path of the link is the namespace's qualified name with each "::"       *)
(* turned into "/" followed by "/index" (a::b -> a/b/index).               *)

IndexPage == <<"/", "i", "n", "d", "e", "x">>

HitsKind(kinds) ==
    /\ cur # <<>>
    /\ ReturnsLink(cur.name, cur.curr_namespace)
    /\ index[Target(cur.name, cur.curr_namespace).key] \in kinds

C15NamespacePath ==
    HitsKind({KNamespace}) =>
        LET hit == Target(cur.name, cur.curr_namespace)
        IN  /\ hit.path = Join(Split(hit.key, Sep), Slash) \o IndexPage
            /\ cur.ret = Some(Anchor(Join(Split(hit.key, Sep), Slash) \o IndexPage,
                                     hit.text, hit.suffix))

----------------------------------------------------------------------------
(* C16: when resolve hits an index entry of kind record, enum, function or *)
(* alias with qualified name q1::...::qn::base, the target path is         *)
(* q1/.../qn/<kind>.<base'> (<kind>.<base'> without qualifier), base'      *)
(* being base with every '/' replaced by "slash"; the qualifier            *)
(* components are copied unchanged.                                        *)

\* base with every '/' replaced by the word slash, character by character
RECURSIVE Escaped(_)
Escaped(base) ==
    IF base = <<>> THEN <<>>
    ELSE (IF base[1] = "/" THEN SlashWord ELSE <<base[1]>>) \o Escaped(Tail(base))

C16DeclarationPath ==
    HitsKind({KRecord, KEnum, KFunction, KAlias}) =>
        LET hit == Target(cur.name, cur.curr_namespace)
            parts == Split(hit.key, Sep)
            path == DeclPath(SubSeq(parts, 1, Len(parts) - 1), index[hit.key],
                             Escaped(parts[Len(parts)]))
        IN  /\ hit.path = path
            /\ cur.ret = Some(Anchor(path, hit.text, hit.suffix))

\* resolve("operator/", "a::b") links to a/b/function.operatorslash
C16Witness ==
    /\ cur # <<>>
    /\ cur.name = OperatorDiv
    /\ cur.curr_namespace = NamespaceAt(2)
    /\ HitsKind({KFunction})
    /\ Target(cur.name, cur.curr_namespace).key = KeyAt(2, OperatorDiv)
    /\ IsSome(cur.ret)
    /\ Contains(Unwrap(cur.ret),
                DeclPath(<< <<"a">>, <<"b">> >>, KFunction, SubSeq(OperatorDiv, 1, 8) \o SlashWord))

----------------------------------------------------------------------------
(* C17: resolve returns none whenever no lookup stage hits the index.  For *)
(* an expression without '<': if neither the candidate at global scope nor *)
(* the candidate under the context namespace or one of its prefixes is a   *)
(* key, the result is none.  An expression with '<' never returns none:    *)
(* its result is the composed string, unresolved components unlinked.      *)

\* The keys a hit of the candidate of `name` could be, seen from `ns`
Candidates(name, ns) ==
    LET cleaned == CleanedName(name)
        parts == Split(ns, Sep)
    IN  {cleaned, TrimStartMatches(cleaned, Sep)}
        \cup {Join(SubSeq(parts, 1, k), Sep) \o Sep \o cleaned : k \in 1..Len(parts)}

\* Neither the expression, nor its outer name, nor any of its arguments
\* matches a key
RECURSIVE NoStageHits(_, _)
NoStageHits(name, ns) ==
    IF Contains(name, LAngle)
    THEN /\ NoStageHits(Trim(Split(name, LAngle)[1]), ns)
         /\ \A k \in 1..Len(TypeParams(name)) : NoStageHits(Trim(TypeParams(name)[k]), ns)
    ELSE Candidates(name, ns) \cap DOMAIN index = {}

\* As claimed: none for every expression no part of which hits
C17AsClaimed ==
    (cur # <<>> /\ NoStageHits(cur.name, cur.curr_namespace)) => cur.ret = None

C17NoneOnMiss ==
    cur # <<>> =>
        /\ (~Contains(cur.name, LAngle) /\ NoStageHits(cur.name, cur.curr_namespace))
               => cur.ret = None
        /\ Contains(cur.name, LAngle) => IsSome(cur.ret)

\* "const T&" seen from a::b finds nothing although a::b::c::T is declared
C17Witness ==
    /\ cur # <<>>
    /\ cur.name = ExprConstRef
    /\ cur.curr_namespace = NamespaceAt(2)
    /\ KeyAt(3, NameT) \in DOMAIN index
    /\ NoStageHits(cur.name, cur.curr_namespace)
    /\ cur.ret = None

----------------------------------------------------------------------------
(* C18: for a candidate that does not start with "::", resolve returns the *)
(* first hit among (a) contextNamespace::candidate, (b) the candidate at   *)
(* global scope, (c) prefix::candidate for the prefixes of the context     *)
(* namespace, longest first.  With a global T and a::T both registered and *)
(* the context a::b the result is the global T; with T under two ancestors *)
(* only, the nearer one wins.                                              *)

\* The link to the index entry `key` for the expression `name`
LinkTo(key, name) ==
    Some(Anchor(Unwrap(GetPathForName(key, index)), NameWithoutSuffix(name), Suffix(name)))

\* prefix::candidate for the first k components of the context namespace
Scoped(parts, k, cleaned) == Join(SubSeq(parts, 1, k), Sep) \o Sep \o cleaned

C18LookupOrder ==
    (/\ cur # <<>>
     /\ ~Contains(cur.name, LAngle)
     /\ ~StartsWith(CleanedName(cur.name), Sep)) =>
        LET cleaned == CleanedName(cur.name)
            parts == Split(cur.curr_namespace, Sep)
            n == Len(parts)
            inContext == Scoped(parts, n, cleaned) \in DOMAIN index
            inGlobal == cleaned \in DOMAIN index
        IN  /\ inContext => cur.ret = LinkTo(Scoped(parts, n, cleaned), cur.name)
            /\ (~inContext /\ inGlobal) => cur.ret = LinkTo(cleaned, cur.name)
            /\ \A k \in 1..(n - 1) :
                   (/\ ~inContext
                    /\ ~inGlobal
                    /\ Scoped(parts, k, cleaned) \in DOMAIN index
                    /\ \A j \in (k + 1)..(n - 1) : Scoped(parts, j, cleaned) \notin DOMAIN index)
                       => cur.ret = LinkTo(Scoped(parts, k, cleaned), cur.name)

\* resolve("T", "a::b") with T declared globally and in a: the global T
C18Witness ==
    /\ cur # <<>>
    /\ cur.name = NameT
    /\ cur.curr_namespace = NamespaceAt(2)
    /\ index = RenderIndex({0, 1}, FALSE)
    /\ cur.ret = Some(Anchor(<<"r", "e", "c", "o", "r", "d", ".", "T">>, NameT, <<>>))

----------------------------------------------------------------------------
(* C19: a candidate that starts with "::" is looked up only at global      *)
(* scope.  No key of the index starts with "::" or holds two "::" in a     *)
(* row, and if the name after the leading "::" is not a key of the index   *)
(* then resolve returns none, even when contextNamespace::name or          *)
(* ancestorPrefix::name is a key.                                          *)

\* The candidate of the call is written absolutely; the name after its "::"
IsAbsolute(name) == ~Contains(name, LAngle) /\ StartsWith(CleanedName(name), Sep)
AfterSep(name) == SubSeq(CleanedName(name), Len(Sep) + 1, Len(CleanedName(name)))

\* name is a key under the context namespace or one of its prefixes
KeyInScope(name, ns) ==
    \E k \in 1..Len(Split(ns, Sep)) : Scoped(Split(ns, Sep), k, name) \in DOMAIN index

C19GlobalOnly ==
    /\ \A key \in DOMAIN index : ~StartsWith(key, Sep) /\ ~Contains(key, Sep \o Sep)
    /\ (cur # <<>> /\ IsAbsolute(cur.name) /\ AfterSep(cur.name) \notin DOMAIN index)
           => cur.ret = None

\* resolve("::T", "a::b") with T declared in a::b and in a, not globally
C19Witness ==
    /\ cur # <<>>
    /\ cur.name = Sep \o NameT
    /\ cur.curr_namespace = NamespaceAt(2)
    /\ index = RenderIndex({1, 2}, FALSE)
    /\ KeyInScope(AfterSep(cur.name), cur.curr_namespace)
    /\ cur.ret = None

----------------------------------------------------------------------------
(* C20: in a template expression the arguments are only those between the  *)
(* first '<' and its matching '>', and the text after that matching '>' is *)
(* kept as the trailing suffix of the result: for A<B>::C<D> the arguments *)
(* are [B] and the suffix is ::C<D>.                                       *)

\* The first '<' and the '>' that matches it
FirstOpen(name) == CHOOSE i \in 1..Len(name) : name[i] = "<" /\ Count(name, "<", i) = 1
MatchingClose(name) ==
    CHOOSE i \in 1..Len(name) :
        /\ i > FirstOpen(name)
        /\ DepthAt(name, i) = 0
        /\ \A j \in FirstOpen(name)..(i - 1) : DepthAt(name, j) > 0

\* The first argument list cut at its commas of depth 1
RECURSIVE ArgumentsFrom(_, _, _)
ArgumentsFrom(name, from, i) ==
    IF i = MatchingClose(name) THEN <<SubSeq(name, from, i - 1)>>
    ELSE IF name[i] = "," /\ DepthAt(name, i) = 1
    THEN <<SubSeq(name, from, i - 1)>> \o ArgumentsFrom(name, i + 1, i + 1)
    ELSE ArgumentsFrom(name, from, i + 1)

FirstArguments(name) == ArgumentsFrom(name, FirstOpen(name) + 1, FirstOpen(name) + 1)
AfterClose(name) == SubSeq(name, MatchingClose(name) + 1, Len(name))

\* A component of the result: its link, or the unlinked text
Rendered(t, ns) ==
    IF IsSome(GetLinkForType(t, ns, index)) THEN Unwrap(GetLinkForType(t, ns, index))
    ELSE Span(t)

C20SuffixKept ==
    (cur # <<>> /\ Contains(cur.name, LAngle) /\ Balanced(cur.name)) =>
        LET args == FirstArguments(cur.name)
            ns == cur.curr_namespace
        IN  /\ TypeParams(cur.name) = args
            /\ cur.ret = Some(Rendered(Trim(SubSeq(cur.name, 1, FirstOpen(cur.name) - 1)), ns)
                              \o <<"&", "l", "t", ";">>
                              \o Join([k \in 1..Len(args) |-> Rendered(Trim(args[k]), ns)],
                                      <<",", " ">>)
                              \o <<"&", "g", "t", ";">>
                              \o Trim(AfterClose(cur.name)))

----------------------------------------------------------------------------
(* C21: the result of resolving a template expression is the composed      *)
(* string outer<arg0, arg1, ...>suffix with exactly one rendered component *)
(* per top-level argument, in the original order; the outer name and each  *)
(* argument are resolved with the same context namespace, and a component  *)
(* that does not resolve is rendered as its text, unlinked.                *)

\* outer<arg0, arg1, ...> with one component per argument of the first list
Composed(name, ns) ==
    Rendered(Trim(SubSeq(name, 1, FirstOpen(name) - 1)), ns)
    \o <<"&", "l", "t", ";">>
    \o Join([k \in 1..Len(FirstArguments(name)) |-> Rendered(Trim(FirstArguments(name)[k]), ns)],
            <<",", " ">>)
    \o <<"&", "g", "t", ";">>

C21Composition ==
    (cur # <<>> /\ Contains(cur.name, LAngle) /\ Balanced(cur.name)) =>
        /\ IsSome(cur.ret)
        /\ StartsWith(Unwrap(cur.ret), Composed(cur.name, cur.curr_namespace))

----------------------------------------------------------------------------
(* C22: for an expression without '<' made of an optional leading "const ",*)
(* a name, and '&', '*' or space decorations before or after the name, the *)
(* candidate is the name without the "const " token and the decorations,   *)
(* and a successful result is the linked name followed by exactly the      *)
(* trailing decorations of the expression (surrounding spaces aside):      *)
(* nothing of the name or of the leading decorations is repeated after the *)
(* link.                                                                   *)

\* The expression after its "const " token, and the decorations that end it
AfterConst(name) == IF StartsWith(name, ConstPrefix) THEN Drop(name, Len(ConstPrefix)) ELSE name
TrailingDecorations(name) ==
    SubSeq(AfterConst(name), Len(TrimEndChars(AfterConst(name), Decoration)) + 1,
           Len(AfterConst(name)))

\* The text of the link: the name, with its "const " token when it has one
LinkTexts(name) ==
    {TrimChars(AfterConst(name), Decoration),
     TrimEndChars(name, Decoration),
     TrimChars(name, Decoration)}

C22Decorations ==
    (/\ cur.state = "returned"
     /\ ~Contains(cur.name, LAngle)
     /\ IsSome(cur.ret)) =>
        /\ Target(cur.name, cur.curr_namespace).key \in
               Candidates(TrimChars(AfterConst(cur.name), Decoration), cur.curr_namespace)
        /\ \E text \in LinkTexts(cur.name) :
               cur.ret = Some(Anchor(Target(cur.name, cur.curr_namespace).path, text,
                                     Trim(TrailingDecorations(cur.name))))

----------------------------------------------------------------------------
(* C23: deduction guides are discarded unconditionally: after any sequence *)
(* of visited entities no function whose name matches the deduction-guide  *)
(* pattern is in a namespace's function list, in an overload list, or a    *)
(* key of the index.                                                       *)

IsGuide(name) == Contains(name, DeductionGuide)

NoGuideIn(functions) ==
    \A i \in 1..Len(functions) :
        /\ ~IsGuide(functions[i].name)
        /\ IsSome(functions[i].overloads) =>
               \A j \in 1..Len(Unwrap(functions[i].overloads)) :
                   ~IsGuide(Unwrap(functions[i].overloads)[j].name)

\* No guide among the functions of `node` or of a namespace below it
RECURSIVE NoGuideUnder(_)
NoGuideUnder(node) ==
    /\ NoGuideIn(node.functions)
    /\ \A i \in 1..Len(node.namespaces) : NoGuideUnder(node.namespaces[i])

C23GuidesDiscarded ==
    /\ NoGuideUnder(root)
    /\ \A k \in 1..Len(stack) : ~stack[k].exists => NoGuideUnder(stack[k].real_ns)
    /\ \A key \in DOMAIN index : ~IsGuide(key)

\* the guide of S met twice in namespace n, after a function of n
C23Witness ==
    /\ Len(trace) = 4
    /\ trace[1].ev = "enter" /\ trace[1].node = NamespaceN
    /\ trace[2].ev = "visit" /\ trace[2].node = FunctionF0 /\ trace[2].ns = NameN
    /\ trace[3].ev = "visit" /\ trace[3].node = FunctionGuide /\ trace[3].ns = NameN
    /\ trace[4].ev = "visit" /\ trace[4].node = FunctionGuide /\ trace[4].ns = NameN
    /\ \E p \in AllNodes : p[1] = NameN /\ Names(p[2].functions) = <<NameF>>

----------------------------------------------------------------------------
(* C24: a malformed entity is fatal for the run.  When a visited function, *)
(* record, enum, namespace or alias has no name, or a function has no      *)
(* result type, or a parameter or a field has no type, the build aborts at *)
(* that entity: the model and the index stay as they were, no later entity *)
(* or file is processed and nothing is emitted.  A field or a method that  *)
(* is not public is not read, and what it lacks does not abort the build.  *)

NamedKinds == FunctionKinds \cup RecordKinds \cup {"EnumDecl", "Namespace", "TypeAliasDecl"}
CallableKinds == FunctionKinds \cup {"Method", "Constructor"}

\* A member the builder reads: a field or a method is read when it is public
PublicMember(c) ==
    c.kind \in {"FieldDecl", "Method", "FunctionTemplate"} => c.access = "public"

\* The entity or one of its members lacks a name or a type of the claim's
\* list; with publicOnly, only the members the builder reads count
RECURSIVE Lacks(_, _)
Lacks(e, publicOnly) ==
    \/ e.kind \in NamedKinds \cup CallableKinds /\ Missing(e.name)
    \/ e.kind \in CallableKinds \cup {"FieldDecl", "ParmDecl"} /\ Missing(e.type)
    \/ \E i \in 1..Len(e.children) :
           /\ publicOnly => PublicMember(e.children[i])
           /\ Lacks(e.children[i], publicOnly)

\* The step hands a further entity of the processed file to parse_node
VisitStep ==
    /\ Len(trace') = Len(trace) + 1
    /\ trace'[Len(trace')].ev \in {"visit", "enter"}

AbortsAt(publicOnly) ==
    (VisitStep /\ Lacks(trace'[Len(trace')].node, publicOnly)) =>
        /\ batch'.status = "aborted"
        /\ root' = root /\ index' = index /\ stack' = stack

\* As claimed: whatever member lacks its type or name
C24AsClaimed == [][AbortsAt(FALSE)]_vars

C24FailFast ==
    /\ [][/\ AbortsAt(TRUE)
          /\ (VisitStep /\ ~Lacks(trace'[Len(trace')].node, TRUE))
                 => batch'.status = "running"
          /\ batch.status # "aborted"]_vars

\* void f(<no type> x) after struct S and an enum: the build has stopped with
\* its index in memory
C24Witness ==
    /\ batch.status = "aborted"
    /\ Len(trace) = 3
    /\ trace[1].node = StructHidden
    /\ trace[2].node = EnumE
    /\ trace[3].node.kind = "FunctionDecl"
    /\ trace[3].node.name = NameF
    /\ \E i \in 1..Len(trace[3].node.children) : Missing(trace[3].node.children[i].type)
    /\ DOMAIN index = {NameS, NameE}

----------------------------------------------------------------------------
(* C25: for a templated type alias the recorded type text is the template  *)
(* name, then '<', then the argument texts of the alias's children in      *)
(* encounter order joined by single commas, then '>': no leading, trailing *)
(* or doubled comma, wherever the template reference stands among the      *)
(* children and whatever other children occur; an alias with no usable     *)
(* children records exactly "unknown".                                     *)

\* The text a type reference contributes
RefText(c) == IF ~Missing(c.type) THEN c.type ELSE TrimStartMatches(c.name, StructPrefix)

AliasTypeAsClaimed(node) ==
    LET refs == OfKinds(node.children, {"TypeRef"})
        tmpl == OfKinds(node.children, {"TemplateRef"})
        texts == [i \in 1..Len(refs) |-> RefText(refs[i])]
    IN  IF tmpl # <<>> THEN tmpl[1].name \o <<"<">> \o Join(texts, <<",">>) \o <<">">>
        ELSE IF refs = <<>> THEN Unknown
        ELSE Join(texts, <<>>)

\* The aliases parsed under namespace q, in visit order
AliasVisits(q) ==
    SelectSeq(trace, LAMBDA e : /\ e.ev = "visit"
                                /\ e.node.kind = "TypeAliasDecl"
                                /\ e.ns = q
                                /\ ~ParseNodePanics(e.node))

C25AliasText ==
    \A p \in AllNodes :
        /\ Len(p[2].aliases) = Len(AliasVisits(p[1]))
        /\ \A i \in 1..Len(p[2].aliases) :
               p[2].aliases[i].type_ = AliasTypeAsClaimed(AliasVisits(p[1])[i].node)

----------------------------------------------------------------------------
(* C26: nested registration holds at every nesting depth: for a named      *)
(* record or enum T kept in the nested list of a record S that is itself   *)
(* kept in the nested list of a record R of namespace n, the index has the *)
(* key n::R::S::T with the matching kind, and T's namespace attribute is   *)
(* the owner's qualified name n::R::S.                                     *)

KindOfNested(x) == IF x.tag = "Enum" THEN KEnum ELSE KRecord

\* The elements of the nested list of a record
NestedOf(rec) == IF IsSome(rec.nested) THEN Unwrap(rec.nested) ELSE <<>>

C26DeepNested ==
    \A qn \in AllNodes :
        \A i \in 1..Len(qn[2].records) :
            \A k \in 1..Len(NestedOf(qn[2].records[i])) :
                LET R == qn[2].records[i]
                    S == NestedOf(R)[k]
                    owner == Qualify(ChildNamespaceName(qn[1], R.name), S.val.name)
                IN  S.tag = "Record" =>
                        \A m \in 1..Len(NestedOf(S.val)) :
                            LET T == NestedOf(S.val)[m]
                            IN  /\ T.val.namespace = Some(owner)
                                /\ Qualify(owner, T.val.name) \in DOMAIN index
                                /\ index[Qualify(owner, T.val.name)] = KindOfNested(T)

----------------------------------------------------------------------------
(* C27: only entities that originate from the text of the file being       *)
(* processed are added to the model and the index: an entity that comes    *)
(* from an included file is never added, at any depth of the entity tree,  *)
(* a child of a namespace declared in the processed file included.         *)

\* The step meets an entity that comes from an included file
IncludedStep ==
    /\ Len(trace') = Len(trace) + 1
    /\ trace'[Len(trace')].ev \in {"skip", "included"}

C27MainFileOnly == [][IncludedStep => UNCHANGED <<root, index, stack>>]_vars

----------------------------------------------------------------------------
(* C28: a built record's field list is exactly its public field children   *)
(* in declaration order, its method list is exactly its public method and  *)
(* function-template children in declaration order, each tagged with its   *)
(* const/static/virtual qualifiers, and its constructor list holds its     *)
(* constructor children in declaration order, each with an empty           *)
(* return-type text; no field or method that is not public is in the       *)
(* model.  (A record met again contributes the methods of every parse.)    *)

PublicMethods(node) ==
    SelectSeq(node.children,
              LAMBDA c : c.kind \in {"Method", "FunctionTemplate"} /\ c.access = "public")

\* Name, qualifiers and template mark of a method entity / of a stored method
MethodTag(c) ==
    [name |-> c.name, const_ |-> "const" \in c.quals, static_ |-> "static" \in c.quals,
     virtual_ |-> "virtual" \in c.quals, templated |-> c.kind = "FunctionTemplate"]
StoredTag(m) ==
    [name |-> m.name, const_ |-> m.props.const_, static_ |-> m.props.static_,
     virtual_ |-> m.props.virtual_, templated |-> IsSome(m.template)]

\* The public methods of the parses of one record, in visit order
RECURSIVE MethodsOfParses(_)
MethodsOfParses(events) ==
    IF events = <<>> THEN <<>>
    ELSE LET ms == PublicMethods(events[1].node)
         IN  [i \in 1..Len(ms) |-> MethodTag(ms[i])] \o MethodsOfParses(Tail(events))

MembersStored(rec, node, events) ==
    LET ctors == OfKinds(node.children, {"Constructor"})
    IN  /\ Names(rec.fields) = Names(PublicFields(node))
        /\ [i \in 1..Len(rec.methods) |-> StoredTag(rec.methods[i])] = MethodsOfParses(events)
        /\ Names(rec.ctor) = Names(ctors)
        /\ \A i \in 1..Len(rec.ctor) : rec.ctor[i].return_type = <<>>

C28RecordMembers ==
    \A qn \in AllNodes :
        \A i \in 1..Len(qn[2].records) :
            LET rec == qn[2].records[i]
                events == RecordEvents(qn[1], rec.name)
            IN  /\ MembersStored(rec, events[1].node, events)
                /\ \A k \in 1..Len(NestedOf(rec)) :
                       NestedOf(rec)[k].tag = "Record" =>
                           LET c == ChildNamed(events[1].node, NestedOf(rec)[k].val.name)
                           IN  MembersStored(NestedOf(rec)[k].val, c, <<[node |-> c]>>)

\* struct S { int x; private: int p; public: S(); void m(); private: void q(); };
\* met in namespace n, then class S { public: int k() const; };
C28Witness ==
    /\ Len(trace) = 3
    /\ trace[2].node = ShapeFull /\ trace[2].ns = NameN
    /\ trace[3].node = ShapeClass /\ trace[3].ns = NameN
    /\ \E qn \in AllNodes :
          /\ qn[1] = NameN
          /\ Len(qn[2].records) = 1
          /\ Names(qn[2].records[1].fields) = << <<"x">> >>
          /\ Names(qn[2].records[1].methods) = << <<"m">>, <<"k">> >>
          /\ qn[2].records[1].methods[2].props.const_
          /\ Names(qn[2].records[1].ctor) = <<NameS>>

----------------------------------------------------------------------------
(* C29: after a completed build the index and the model agree: every index *)
(* key is the qualified name (namespace path, `::`, stored name) of an     *)
(* entity of the model whose kind is the stored tag (a namespace node, a   *)
(* record, a record's named nested record or enum, an enum, an alias or a  *)
(* top-level function), and every namespace node, namespace-scope record,  *)
(* enum, alias and top-level function of the model has its qualified name  *)
(* as an index key.                                                        *)

QualifiedName(q, name) == IF q = <<>> THEN name ELSE Qualify(q, name)

Tagged(q, items, kind) == {<<QualifiedName(q, items[i].name), kind>> : i \in 1..Len(items)}

\* The namespace-scope entities of one namespace node, with their kinds
ScopeEntities(q, node) ==
    (IF q = <<>> THEN {} ELSE {<<q, KNamespace>>})
    \cup Tagged(q, node.records, KRecord)
    \cup Tagged(q, node.enums, KEnum)
    \cup Tagged(q, node.aliases, KAlias)
    \cup Tagged(q, node.functions, KFunction)

\* The named nested records and enums of the records of one namespace node
NestedEntities(q, node) ==
    UNION {{<<Qualify(QualifiedName(q, node.records[i].name), NestedOf(node.records[i])[k].val.name),
              KindOfNested(NestedOf(node.records[i])[k])>> :
                k \in 1..Len(NestedOf(node.records[i]))} : i \in 1..Len(node.records)}

ModelScopeEntities == UNION {ScopeEntities(qn[1], qn[2]) : qn \in AllNodes}
ModelEntities == ModelScopeEntities \cup UNION {NestedEntities(qn[1], qn[2]) : qn \in AllNodes}

C29IndexAgreesWithModel ==
    batch.status = "done" =>
        /\ \A k \in DOMAIN index : <<k, index[k]>> \in ModelEntities
        /\ \A e \in ModelScopeEntities : e[1] \in DOMAIN index

----------------------------------------------------------------------------
(* The page files the renderer writes for a model, as the text that        *)
(* follows config.output.path in the path handed to std::fs::write.        *)

HtmlExt == <<".", "h", "t", "m", "l">>
IndexHtml == <<"i", "n", "d", "e", "x">> \o HtmlExt
UnnamedStructPrefix == UnnamedPrefix \o <<" ", "s", "t", "r", "u", "c", "t">>

\* render::get_namespace_path
GetNamespacePath(name) == Replace(name, Sep, Slash)

\* The `path` every output_* function derives from the entity's namespace
NamespaceDir(namespace) ==
    IF IsSome(namespace) /\ Unwrap(namespace) # <<>>
    THEN Slash \o GetNamespacePath(Unwrap(namespace))
    ELSE <<>>

\* format!("{}/{}/<kind>.{}.html", config.output.path, path, name)
PageFile(namespace, kind, name) ==
    Slash \o NamespaceDir(namespace) \o Slash \o kind \o Dot \o name \o HtmlExt

OutputFunction(function) ==
    {PageFile(function.namespace, KFunction, Replace(function.name, Slash, SlashWord))}

OutputEnum(enum_) == {PageFile(enum_.namespace, KEnum, enum_.name)}

OutputAlias(alias) == {PageFile(alias.namespace, KAlias, alias.name)}

\* output_record: nothing for an "(unnamed struct"; otherwise the record's
\* page and, through the loop over record.nested, the pages of its nested
\* records and enums, each under the record's qualified name
RECURSIVE OutputRecord(_)
OutputRecord(record) ==
    IF StartsWith(record.name, UnnamedStructPrefix) THEN {}
    ELSE LET ns_name == IF IsSome(record.namespace) THEN Unwrap(record.namespace) ELSE <<>>
             owner == IF ns_name = <<>> THEN record.name ELSE Qualify(ns_name, record.name)
             nested == IF IsSome(record.nested) THEN Unwrap(record.nested) ELSE <<>>
             NestedPages(x) ==
                 IF x.tag = "Record"
                 THEN OutputRecord([x.val EXCEPT !.namespace = Some(owner)])
                 ELSE OutputEnum([x.val EXCEPT !.namespace = Some(owner)])
         IN  {PageFile(record.namespace, KRecord, record.name)}
             \cup UNION {NestedPages(nested[i]) : i \in 1..Len(nested)}

\* output_namespace with no root namespace configured: the namespace's
\* index.html, then the pages of its records, functions, enums, aliases and
\* child namespaces
RECURSIVE OutputNamespace(_)
OutputNamespace(namespace) ==
    LET is_root == namespace.name = <<>>
        path == IF is_root THEN <<>> ELSE NamespaceDir(namespace.namespace)
    IN  {Slash \o path \o Slash \o (IF is_root THEN <<>> ELSE namespace.name) \o Slash \o IndexHtml}
        \cup UNION {OutputRecord(namespace.records[i]) : i \in 1..Len(namespace.records)}
        \cup UNION {OutputFunction(namespace.functions[i]) : i \in 1..Len(namespace.functions)}
        \cup UNION {OutputEnum(namespace.enums[i]) : i \in 1..Len(namespace.enums)}
        \cup UNION {OutputAlias(namespace.aliases[i]) : i \in 1..Len(namespace.aliases)}
        \cup UNION {OutputNamespace(namespace.namespaces[i]) : i \in 1..Len(namespace.namespaces)}

----------------------------------------------------------------------------
(* C30: no generated link dangles: for every index entry of kind record,   *)
(* enum, alias or function the builder registered, the path that           *)
(* get_path_for_name derives from the key is the path, relative to the     *)
(* output directory and without the .html extension, of a page file the    *)
(* renderer writes (no root namespace configured).                         *)

\* A written file as a path relative to the output directory: empty
\* components (repeated slashes) do not count, the extension is dropped
RelativePage(file) ==
    LET parts == SelectSeq(Split(file, Slash), LAMBDA c : c # <<>>)
        joined == Join(parts, Slash)
    IN  SubSeq(joined, 1, Len(joined) - Len(HtmlExt))

PagesWritten == {RelativePage(f) : f \in OutputNamespace(root)}

PageKinds == {KRecord, KEnum, KAlias, KFunction}

C30NoDanglingLink ==
    batch.status = "done" =>
        \A k \in DOMAIN index :
            index[k] \in PageKinds => Unwrap(GetPathForName(k, index)) \in PagesWritten

============================================================================
